---- MODULE Spec2Model ----
(***************************************************************************)
(* LogInTo relay server (src/src/server.js) and its user store             *)
(* (src/src/users.js) as a state machine.                                  *)
(*                                                                         *)
(* Node runs every handler to completion on one thread, so each HTTP       *)
(* route, each Socket.IO handshake (middleware + 'connection' handler,     *)
(* which socket.io chains with process.nextTick, ahead of any other I/O)   *)
(* and each socket event handler is one atomic action.  What a handler     *)
(* does in program order (emits, registry writes, disconnects, packets)    *)
(* is recorded in `trace`, the effect list of the handler that ran last;   *)
(* `resp` is the HTTP answer or handshake outcome of that handler.         *)
(*                                                                         *)
(* Time is counted in days: Date.now() is `now`, 24*60*60*1000 ms is 1.    *)
(* uuidv4() values are modelled as fresh naturals that are never reused.   *)
(***************************************************************************)
EXTENDS Integers, Sequences, FiniteSets, TLC

VARIABLES
  now,        \* Date.now()
  machines,   \* users.js this.users[*].machines : user id -> sequence of machines
  nextKey,    \* next value uuidv4() returns for an agentKey
  sessions,   \* server.js:80  token -> {userId, created, lastActive}
  nextToken,  \* next value uuidv4() returns for a session token
  invites,    \* server.js:82  inviteToken -> {userId, machineId, machineName, expiresAt}
  nextInvite, \* next value uuidv4() returns for an invite token
  agents,     \* server.js:81  agentKey -> {socket, screenInfo, connected, userId, machineId}
  sockets,    \* connected Socket.IO sockets: id -> fields set by io.use / the handlers
  rooms,      \* Socket.IO adapter: socket id -> set of rooms it joined
  loginHits,  \* loginLimiter: source -> requests counted in the current window
  wakeHits,   \* wakeLimiter: source -> requests counted in the current window
  up,         \* the process is running and has loaded the user store
  disk,       \* users.js USERS_FILE: the text of data/users.json
  proc,       \* the listener, the close callback, the exit timers, the exit code
  wire,       \* per listening client: how many events it sent, and what reached it
  trace,      \* effects of the last handler, in program order
  resp        \* answer of the last handler

vars == <<now, machines, nextKey, sessions, nextToken, invites, nextInvite,
          agents, sockets, rooms, loginHits, wakeHits, up, disk, proc, wire, trace, resp>>

----------------------------------------------------------------------------
(* Bounds of the model *)

MaxSockets  == 3   \* sockets connected at the same time
MaxMachines == 2   \* machines one user holds at the same time
MaxKeys     == 3   \* agent keys ever generated (two of them by the seed)
MaxTokens   == 2   \* sessions ever minted
MaxInvites  == 2   \* invites ever minted
MaxLog      == 4   \* events a listening client records
MaxSent     == 3   \* events a listening client sends
MaxSignals  == 2   \* termination signals the process receives
MaxTime     == 8   \* days the clock may advance
StartTime   == 2   \* Date.now() at boot; any value above the seeded id 'm1'

(* Program constants *)

SESSION_TTL == 1   \* 24 * 60 * 60 * 1000 ms
INVITE_TTL  == 7   \* 7 * 24 * 60 * 60 * 1000 ms
WAKE_MAX    == 5   \* wakeLimiter max
MAX_LOGIN_ATTEMPTS == 5

----------------------------------------------------------------------------
(* Values *)

Users     == {"kingpin", "tez"}
Sources   == {"ip1", "ip2"}
Null      == 0                      \* null / undefined where a number or uuid is expected
NullStr   == "null"                 \* null / undefined where a string is expected
NullRec   == [null |-> TRUE]        \* null / undefined where an object is expected
Empty     == [x \in {} |-> Null]    \* new Map()
Keys      == 1 .. MaxKeys
Tokens    == 1 .. MaxTokens
InviteIds == 1 .. MaxInvites
SockIds   == 1 .. MaxSockets
Times     == StartTime .. (StartTime + MaxTime)
MachineIds == {1} \cup Times        \* 'm1' of the seed, 'm' + Date.now() afterwards
Names     == {"My Laptop", "New Machine", "Renamed"}
Macs      == {"11:22:33:44:55:66"}   \* strings that match macRegex
Broadcasts == {"192.168.1.255"}      \* strings that match ipRegex
ScreenInfos == {"info1", "info2"}
Roles     == {"agent", "viewer", "dashboard", "other", "none"}

viewerRoom(agentKey) == <<"viewers", agentKey>>
userRoom(userId)     == <<"user", userId>>

NoData == [none |-> TRUE]

Effect(op, to, ev, data) == [op |-> op, to |-> to, ev |-> ev, data |-> data]

Members(rm, room) == {s \in DOMAIN rm : room \in rm[s]}

\* socket.emit(ev, data)
Emit(s, ev, data) == Effect("emit", {s}, ev, data)
\* io.to(room).emit(ev, data), with the room as it is when the emit runs
Broadcast(rm, room, ev, data) == Effect("emit", Members(rm, room), ev, data)
\* io.to(room).volatile.emit(ev, data)
VolatileBroadcast(rm, room, ev, data) == Effect("volatile", Members(rm, room), ev, data)

Drop(f, k) == [x \in DOMAIN f \ {k} |-> f[x]]
Put(f, k, v) == [x \in DOMAIN f \cup {k} |-> IF x = k THEN v ELSE f[x]]

----------------------------------------------------------------------------
(* users.js : UserStore *)

SeedMachines ==
  [u \in Users |->
     << [id |-> 1, name |-> "My Laptop",
         agentKey |-> (IF u = "kingpin" THEN 1 ELSE 2),
         macAddress |-> NullStr, broadcastAddress |-> NullStr] >>]

Idx(seq, P(_)) == {i \in 1 .. Len(seq) : P(seq[i])}
Min(S) == CHOOSE x \in S : \A y \in S : x <= y

\* Array.prototype.find: the first element that satisfies P, or undefined
Find(seq, P(_)) == IF Idx(seq, P) = {} THEN NullRec ELSE seq[Min(Idx(seq, P))]

\* (mutant) every key is taken for the key of kingpin's first machine
getByAgentKeyAnyKey(agentKey) ==
  [id |-> "kingpin", machineId |-> 1, machineName |-> "My Laptop"]

\* the user and machine an agent key belongs to, or null

getByAgentKey(agentKey) ==
  LET owners == {u \in Users : Idx(machines[u], LAMBDA m : m.agentKey = agentKey) # {}}
  IN IF owners = {} THEN NullRec
     ELSE LET u == CHOOSE x \in owners : TRUE
              m == Find(machines[u], LAMBDA mm : mm.agentKey = agentKey)
          IN [id |-> u, machineId |-> m.id, machineName |-> m.name]

getMachines(userId) == IF userId \in Users THEN machines[userId] ELSE << >>

getMachine(userId, machineId) ==
  IF userId \notin Users THEN NullRec
  ELSE Find(machines[userId], LAMBDA m : m.id = machineId)

RemoveAt(seq, i) == SubSeq(seq, 1, i - 1) \o SubSeq(seq, i + 1, Len(seq))

addMachine(userId, name) ==
  Append(machines[userId],
         [id |-> now, name |-> name, agentKey |-> nextKey,
          macAddress |-> NullStr, broadcastAddress |-> NullStr])

removeMachine(userId, machineId) ==
  RemoveAt(machines[userId], Min(Idx(machines[userId], LAMBDA m : m.id = machineId)))

renameMachine(userId, machineId, newName) ==
  LET i == Min(Idx(machines[userId], LAMBDA m : m.id = machineId))
  IN [machines[userId] EXCEPT ![i].name = newName]

setMacAddress(userId, machineId, mac, bcast) ==
  LET i == Min(Idx(machines[userId], LAMBDA m : m.id = machineId))
  IN [machines[userId] EXCEPT ![i].macAddress = mac, ![i].broadcastAddress = bcast]

----------------------------------------------------------------------------
(* users.js : the document on disk *)

\* this.users in array order
UserOrder == <<"kingpin", "tez">>

\* the text of the document is a sequence of tokens
Tok(k, id, m) == [k |-> k, id |-> id, m |-> m]

\* the text of user i and of the users after it
RECURSIVE UsersText(_, _)
UsersText(doc, i) ==
  IF i > Len(UserOrder) THEN << >>
  ELSE << Tok("user", UserOrder[i], << >>) >>
       \o [j \in 1 .. Len(doc[UserOrder[i]]) |-> Tok("machine", NullStr, << doc[UserOrder[i]][j] >>)]
       \o UsersText(doc, i + 1)

\* JSON.stringify(this.users, null, 2)
Stringify(doc) == << Tok("[", NullStr, << >>) >> \o UsersText(doc, 1) \o << Tok("]", NullStr, << >>) >>

\* JSON.parse accepts the text: it is bracketed and no bracket closes it early
ParseOk(text) ==
  /\ Len(text) >= 2
  /\ text[1].k = "["
  /\ text[Len(text)].k = "]"
  /\ \A i \in 2 .. Len(text) - 1 : text[i].k \in {"user", "machine"}
  /\ Len(text) > 2 => text[2].k = "user"

\* JSON.parse(data): each user with the machines that follow it in the text
Parse(text) ==
  [u \in {text[i].id : i \in {j \in 1 .. Len(text) : text[j].k = "user"}} |->
     LET p    == CHOOSE i \in 1 .. Len(text) : text[i].k = "user" /\ text[i].id = u
         stop == Min({i \in (p + 1) .. Len(text) : text[i].k # "machine"})
     IN [j \in 1 .. (stop - p - 1) |-> text[p + j].m[1]]]

\* what fs.writeFileSync has put in the file when it stops after n tokens
Written(text, n) == SubSeq(text, 1, n)

\* the process is running, and keeps running
Alive == up /\ UNCHANGED <<up, proc>>

\* a handler that does not call _save
NoSave == Alive /\ UNCHANGED disk

----------------------------------------------------------------------------
(* server.js : sessions *)

\* (mutant) the age of the session is what expires it, not its inactivity
isValidSessionSinceCreation(token) ==
  IF token \notin DOMAIN sessions THEN FALSE
  ELSE ~(now - sessions[token].created > SESSION_TTL)

\* isValidSession(token): the result and the session map it leaves behind
isValidSession(token) ==
  IF token \notin DOMAIN sessions THEN FALSE
  ELSE ~(now - sessions[token].lastActive > SESSION_TTL)

SessionsAfterCheck(token) ==
  IF token \notin DOMAIN sessions THEN sessions
  ELSE IF now - sessions[token].lastActive > SESSION_TTL THEN Drop(sessions, token)
  ELSE [sessions EXCEPT ![token].lastActive = now]

\* (mutant) any valid session passes, whoever it belongs to
AuthorizeAnySession(token, userId) ==
  IF ~isValidSession(token) THEN 401 ELSE 200

\* the bearer check every :userId route starts with
Authorize(token, userId) ==
  IF ~isValidSession(token) THEN 401
  ELSE IF sessions[token].userId # userId THEN 403
  ELSE 200

\* an HTTP answer; and the outcome of a socket handler run for socket s
Reply(status, body) == [status |-> status, body |-> body, socket |-> Null]
Handled(s, what)    == [status |-> 0, body |-> what, socket |-> s]

----------------------------------------------------------------------------
(* socket.io : what reaches the clients *)

\* an event as a client receives it
Packet(e) == [ev |-> e.ev, data |-> e.data]

\* the emits of the handler that are addressed to client s
Due(tr, s) ==
  LET ForS(e) == e.op \in {"emit", "volatile"} /\ s \in e.to
  IN SelectSeq(tr, ForS)

\* the ways the emits tr may reach a client: in order, each emit once, except that a
\* volatile emit is discarded when the transport of the client is not writable
RECURSIVE Arrivals(_)
Arrivals(tr) ==
  IF tr = << >> THEN {<< >>}
  ELSE LET rest == Arrivals(Tail(tr))
       IN {<< Packet(Head(tr)) >> \o r : r \in rest}
          \cup (IF Head(tr).op = "volatile" THEN rest ELSE {})

\* the clients that listen record what the handler sent them, and count the events
\* they sent themselves
Wired ==
  IF wire = Empty THEN UNCHANGED wire
  ELSE \E got \in [DOMAIN wire -> UNION {Arrivals(Due(trace', s)) : s \in DOMAIN wire}] :
         /\ \A s \in DOMAIN wire : got[s] \in Arrivals(Due(trace', s))
         /\ wire' = [s \in DOMAIN wire |->
                       [sent |-> wire[s].sent
                                 + (IF resp' = Handled(s, "event") THEN 1 ELSE 0),
                        log  |-> wire[s].log \o got[s]]]
         /\ \A s \in DOMAIN wire : Len(wire'[s].log) <= MaxLog

----------------------------------------------------------------------------
(* server.js : the process *)

\* server.listen(PORT) has run; no signal has arrived
Listening == [listening |-> TRUE, closing |-> FALSE, timers |-> << >>, exit |-> << >>]

----------------------------------------------------------------------------
Init ==
  /\ now = StartTime
  /\ machines = SeedMachines
  /\ nextKey = 3
  /\ sessions = Empty
  /\ nextToken = 1
  /\ invites = Empty
  /\ nextInvite = 1
  /\ agents = Empty
  /\ sockets = Empty
  /\ rooms = Empty
  /\ loginHits = [s \in Sources |-> 0]
  /\ wakeHits = [s \in Sources |-> 0]
  /\ up = TRUE
  /\ disk = Stringify(SeedMachines)
  /\ proc = Listening
  /\ wire = Empty
  /\ trace = << >>
  /\ resp = Reply(0, "boot")

----------------------------------------------------------------------------
(* server.js : Socket.IO *)

FreeSockets == SockIds \ DOMAIN sockets

Socket(role, userId, agentKey, machineId, isInvited) ==
  [role |-> role, userId |-> userId, agentKey |-> agentKey,
   machineId |-> machineId, isInvited |-> isInvited]

Refused(message) == Handled(Null, message)

\* a handshake that io.use refuses: no socket, no handler
Refuse(message) ==
  /\ resp' = Refused(message)
  /\ trace' = << >>
  /\ UNCHANGED <<agents, sockets, rooms>>

\* (mutant) the 'disconnect' handler leaves the registry entry in place
AgentOnDisconnectNoDelete(s, ag, rm) ==
  [agents |-> ag,
   trace  |-> << Broadcast(rm, viewerRoom(sockets[s].agentKey), "agent-status",
                           [connected |-> FALSE]),
                 Broadcast(rm, userRoom(sockets[s].userId), "machine-status",
                           [machineId |-> sockets[s].machineId, connected |-> FALSE]) >>]

\* (mutant) the exit is announced to the viewers of the key only
AgentOnDisconnectViewersOnly(s, ag, rm) ==
  [agents |-> Drop(ag, sockets[s].agentKey),
   trace  |-> << Effect("agents.delete", {}, "registry",
                        [key |-> sockets[s].agentKey, socket |-> Null]),
                 Broadcast(rm, viewerRoom(sockets[s].agentKey), "agent-status",
                           [connected |-> FALSE]) >>]

\* the agent socket's 'disconnect' handler, run on registry ag and rooms rm
AgentOnDisconnect(s, ag, rm) ==
  [agents |-> Drop(ag, sockets[s].agentKey),
   trace  |-> << Effect("agents.delete", {}, "registry",
                        [key |-> sockets[s].agentKey, socket |-> Null]),
                 Broadcast(rm, viewerRoom(sockets[s].agentKey), "agent-status",
                           [connected |-> FALSE]),
                 Broadcast(rm, userRoom(sockets[s].userId), "machine-status",
                           [machineId |-> sockets[s].machineId, connected |-> FALSE]) >>]

\* (mutant) a registration announces the machine to the dashboards only
OnlineEmitsDashboardsOnly(rm, sock) ==
  << Broadcast(rm, userRoom(sock.userId), "machine-status",
               [machineId |-> sock.machineId, connected |-> TRUE]) >>

\* "Notify viewers watching this machine + dashboard" after agents.set
OnlineEmits(rm, sock) ==
  << Broadcast(rm, viewerRoom(sock.agentKey), "agent-status", [connected |-> TRUE]),
     Broadcast(rm, userRoom(sock.userId), "machine-status",
               [machineId |-> sock.machineId, connected |-> TRUE]) >>

\* (mutant) the newcomer never looks for an agent that is already registered
EvictingNever(agentKey) == FALSE

\* existing?.connected
Evicting(agentKey) == agentKey \in DOMAIN agents /\ agents[agentKey].connected

\* (mutant) the newcomer inherits the screen-info of the agent it evicts
AgentOnConnectionKeepsInfo(s, sock) ==
  LET K        == sock.agentKey
      evicting == Evicting(K)
      old      == agents[K].socket
      rooms1   == IF evicting THEN Drop(rooms, old) ELSE rooms
      sockets1 == IF evicting THEN Drop(sockets, old) ELSE sockets
      closed   == IF evicting THEN AgentOnDisconnect(old, agents, rooms1)
                  ELSE [agents |-> agents, trace |-> << >>]
      kick     == IF evicting
                  THEN << Emit(old, "kicked",
                               [reason |-> "Another agent connected for this machine"]),
                          Effect("disconnect", {old}, "socket", NoData) >>
                  ELSE << >>
      entry    == [socket |-> s,
                   screenInfo |-> IF evicting THEN agents[K].screenInfo ELSE NullStr,
                   connected |-> TRUE,
                   userId |-> sock.userId, machineId |-> sock.machineId]
      rooms2   == Put(rooms1, s, {})
  IN /\ agents' = Put(closed.agents, K, entry)
     /\ sockets' = Put(sockets1, s, sock)
     /\ rooms' = rooms2
     /\ trace' = kick \o closed.trace \o
                 << Effect("agents.set", {}, "registry", [key |-> K, socket |-> s]) >>
                 \o OnlineEmits(rooms2, sock)
     /\ resp' = Handled(s, "connected")

\* (mutant) the 'disconnect' handler of the evicted socket runs after agents.set
AgentOnConnectionLateClose(s, sock) ==
  LET K        == sock.agentKey
      evicting == Evicting(K)
      old      == agents[K].socket
      rooms1   == IF evicting THEN Drop(rooms, old) ELSE rooms
      sockets1 == IF evicting THEN Drop(sockets, old) ELSE sockets
      entry    == [socket |-> s, screenInfo |-> NullStr, connected |-> TRUE,
                   userId |-> sock.userId, machineId |-> sock.machineId]
      rooms2   == Put(rooms1, s, {})
      closed   == IF evicting THEN AgentOnDisconnect(old, Put(agents, K, entry), rooms2)
                  ELSE [agents |-> Put(agents, K, entry), trace |-> << >>]
      kick     == IF evicting
                  THEN << Emit(old, "kicked",
                               [reason |-> "Another agent connected for this machine"]),
                          Effect("disconnect", {old}, "socket", NoData) >>
                  ELSE << >>
  IN /\ agents' = closed.agents
     /\ sockets' = Put(sockets1, s, sock)
     /\ rooms' = rooms2
     /\ trace' = kick \o
                 << Effect("agents.set", {}, "registry", [key |-> K, socket |-> s]) >>
                 \o OnlineEmits(rooms2, sock) \o closed.trace
     /\ resp' = Handled(s, "connected")

\* the agent branch of io.on('connection') for the new socket s
AgentOnConnection(s, sock) ==
  LET K        == sock.agentKey
      evicting == Evicting(K)
      old      == agents[K].socket
      \* existing.socket.emit('kicked'); existing.socket.disconnect():
      \* socket.io leaves the rooms, marks the socket closed and runs its
      \* 'disconnect' handler before disconnect() returns
      rooms1   == IF evicting THEN Drop(rooms, old) ELSE rooms
      sockets1 == IF evicting THEN Drop(sockets, old) ELSE sockets
      closed   == IF evicting THEN AgentOnDisconnect(old, agents, rooms1)
                  ELSE [agents |-> agents, trace |-> << >>]
      kick     == IF evicting
                  THEN << Emit(old, "kicked",
                               [reason |-> "Another agent connected for this machine"]),
                          Effect("disconnect", {old}, "socket", NoData) >>
                  ELSE << >>
      entry    == [socket |-> s, screenInfo |-> NullStr, connected |-> TRUE,
                   userId |-> sock.userId, machineId |-> sock.machineId]
      rooms2   == Put(rooms1, s, {})
  IN /\ agents' = Put(closed.agents, K, entry)
     /\ sockets' = Put(sockets1, s, sock)
     /\ rooms' = rooms2
     /\ trace' = kick \o closed.trace \o
                 << Effect("agents.set", {}, "registry", [key |-> K, socket |-> s]) >>
                 \o OnlineEmits(rooms2, sock)
     /\ resp' = Handled(s, "connected")

\* transport loss of an agent socket
AgentDisconnect(s) ==
  /\ NoSave
  /\ s \in DOMAIN sockets
  /\ sockets[s].role = "agent"
  /\ LET closed == AgentOnDisconnect(s, agents, Drop(rooms, s))
     IN /\ agents' = closed.agents
        /\ trace' = closed.trace
  /\ sockets' = Drop(sockets, s)
  /\ rooms' = Drop(rooms, s)
  /\ resp' = Handled(s, "disconnect")
  /\ UNCHANGED <<now, machines, nextKey, sessions, nextToken, invites, nextInvite, loginHits, wakeHits>>
  /\ Wired

\* the agent's 'screen-info' handler
AgentScreenInfo(s, info) ==
  /\ NoSave
  /\ s \in DOMAIN sockets
  /\ sockets[s].role = "agent"
  /\ LET K == sockets[s].agentKey
     IN /\ agents' = IF K \in DOMAIN agents
                     THEN [agents EXCEPT ![K].screenInfo = info] ELSE agents
        /\ trace' = << Broadcast(rooms, viewerRoom(K), "screen-info", [info |-> info]) >>
  /\ resp' = Handled(s, "event")
  /\ UNCHANGED <<now, machines, nextKey, sessions, nextToken, invites, nextInvite,
                 sockets, rooms, loginHits, wakeHits>>
  /\ Wired

\* (mutant) every relayed event of the agent is a volatile one
AgentRelayAllVolatile(s, ev) ==
  /\ NoSave
  /\ s \in DOMAIN sockets
  /\ sockets[s].role = "agent"
  /\ trace' = << VolatileBroadcast(rooms, viewerRoom(sockets[s].agentKey), ev, [from |-> s]) >>
  /\ resp' = Handled(s, "event")
  /\ UNCHANGED <<now, machines, nextKey, sessions, nextToken, invites, nextInvite,
                 agents, sockets, rooms, loginHits, wakeHits>>
  /\ Wired

\* the agent's 'frame', 'displays-list' and 'clipboard-content' handlers
AgentRelay(s, ev) ==
  /\ NoSave
  /\ s \in DOMAIN sockets
  /\ sockets[s].role = "agent"
  /\ LET K == sockets[s].agentKey
     IN trace' = << IF ev = "frame"
                    THEN VolatileBroadcast(rooms, viewerRoom(K), ev, [from |-> s])
                    ELSE Broadcast(rooms, viewerRoom(K), ev, [from |-> s]) >>
  /\ resp' = Handled(s, "event")
  /\ UNCHANGED <<now, machines, nextKey, sessions, nextToken, invites, nextInvite,
                 agents, sockets, rooms, loginHits, wakeHits>>
  /\ Wired

\* (mutant) a viewer that names no machine of its user gets no agent key
ResolveAgentKeyNoFallback(userId, machineId) ==
  LET machine == IF machineId # Null THEN getMachine(userId, machineId) ELSE NullRec
  IN IF machine # NullRec THEN machine.agentKey ELSE Null

\* the viewer's agentKey: the machine it names, else the user's first machine
ResolveAgentKey(userId, machineId) ==
  LET machine == IF machineId # Null THEN getMachine(userId, machineId) ELSE NullRec
      list    == getMachines(userId)
  IN IF machine # NullRec THEN machine.agentKey
     ELSE IF Len(list) > 0 THEN list[1].agentKey
     ELSE Null

\* (mutant) the attach tells the agent nothing
AttachEmitsNoStart(s, agentKey) ==
  IF agentKey # Null /\ agentKey \in DOMAIN agents /\ agents[agentKey].connected
  THEN << Emit(s, "agent-status", [connected |-> TRUE]) >>
       \o (IF agents[agentKey].screenInfo # NullStr
           THEN << Emit(s, "screen-info", [info |-> agents[agentKey].screenInfo]) >>
           ELSE << >>)
  ELSE << Emit(s, "agent-status", [connected |-> FALSE]) >>

\* (mutant) the cached screen-info goes out before the status
AttachEmitsInfoFirst(s, agentKey) ==
  IF agentKey # Null /\ agentKey \in DOMAIN agents /\ agents[agentKey].connected
  THEN (IF agents[agentKey].screenInfo # NullStr
        THEN << Emit(s, "screen-info", [info |-> agents[agentKey].screenInfo]) >>
        ELSE << >>)
       \o << Emit(s, "agent-status", [connected |-> TRUE]),
              Emit(agents[agentKey].socket, "start-streaming", NoData) >>
  ELSE << Emit(s, "agent-status", [connected |-> FALSE]) >>

\* what a viewer s that attaches to agentKey is sent, and what the agent is sent
AttachEmits(s, agentKey) ==
  IF agentKey # Null /\ agentKey \in DOMAIN agents /\ agents[agentKey].connected
  THEN << Emit(s, "agent-status", [connected |-> TRUE]),
          Emit(agents[agentKey].socket, "start-streaming", NoData) >>
       \o (IF agents[agentKey].screenInfo # NullStr
           THEN << Emit(s, "screen-info", [info |-> agents[agentKey].screenInfo]) >>
           ELSE << >>)
  ELSE << Emit(s, "agent-status", [connected |-> FALSE]) >>

\* (mutant) one viewer per key: the newcomer takes the place of the viewers of its key
ViewerOnConnectionSingle(s, sock0) ==
  LET agentKey == ResolveAgentKey(sock0.userId, sock0.machineId)
      sock     == [sock0 EXCEPT !.agentKey = agentKey]
      old      == IF agentKey = Null THEN {} ELSE Members(rooms, viewerRoom(agentKey))
      keep     == DOMAIN sockets \ old
  IN /\ sockets' = Put([x \in keep |-> sockets[x]], s, sock)
     /\ rooms' = Put([x \in keep |-> rooms[x]], s,
                     (IF agentKey # Null THEN {viewerRoom(agentKey)} ELSE {})
                     \cup {userRoom(sock.userId)})
     /\ trace' = AttachEmits(s, agentKey)
     /\ resp' = Handled(s, "connected")
     /\ UNCHANGED agents

\* the viewer branch of io.on('connection') for the new socket s
ViewerOnConnection(s, sock0) ==
  LET agentKey == ResolveAgentKey(sock0.userId, sock0.machineId)
      sock     == [sock0 EXCEPT !.agentKey = agentKey]
      joined   == (IF agentKey # Null THEN {viewerRoom(agentKey)} ELSE {})
                  \cup {userRoom(sock.userId)}
  IN /\ sockets' = Put(sockets, s, sock)
     /\ rooms' = Put(rooms, s, joined)
     /\ trace' = AttachEmits(s, agentKey)
     /\ resp' = Handled(s, "connected")
     /\ UNCHANGED agents

\* (mutant) the dashboard is told that every machine is offline
DashboardOnConnectionAllOffline(s, sock) ==
  LET list == getMachines(sock.userId)
  IN /\ sockets' = Put(sockets, s, sock)
     /\ rooms' = Put(rooms, s, {userRoom(sock.userId)})
     /\ trace' = [i \in 1 .. Len(list) |->
                    Emit(s, "machine-status", [machineId |-> list[i].id, connected |-> FALSE])]
     /\ resp' = Handled(s, "connected")
     /\ UNCHANGED agents

\* the dashboard branch of io.on('connection') for the new socket s
DashboardOnConnection(s, sock) ==
  LET list == getMachines(sock.userId)
  IN /\ sockets' = Put(sockets, s, sock)
     /\ rooms' = Put(rooms, s, {userRoom(sock.userId)})
     /\ trace' = [i \in 1 .. Len(list) |->
                    Emit(s, "machine-status",
                         [machineId |-> list[i].id,
                          connected |-> list[i].agentKey \in DOMAIN agents
                                        /\ agents[list[i].agentKey].connected])]
     /\ resp' = Handled(s, "connected")
     /\ UNCHANGED agents

\* a socket whose role no branch of io.on('connection') handles
OtherOnConnection(s, sock) ==
  /\ sockets' = Put(sockets, s, sock)
  /\ rooms' = Put(rooms, s, {})
  /\ trace' = << >>
  /\ resp' = Handled(s, "connected")
  /\ UNCHANGED agents

\* socket.handshake.auth; an absent field is Null, an absent role is "none"
Auth(role, agentKey, inviteToken, token, machineId) ==
  [role |-> role, agentKey |-> agentKey, inviteToken |-> inviteToken,
   token |-> token, machineId |-> machineId]

\* a handshake: the io.use middleware and, when it calls next(), io.on('connection')
Handshake(auth) ==
  /\ NoSave
  /\ FreeSockets # {}
  /\ LET s == Min(FreeSockets)
     IN IF auth.role = "agent"
        THEN /\ LET user == getByAgentKey(auth.agentKey)
                IN IF auth.agentKey = Null THEN Refuse("Agent key required")
                   ELSE IF user = NullRec THEN Refuse("Invalid agent key")
                   ELSE AgentOnConnection(s, Socket("agent", user.id, auth.agentKey,
                                                    user.machineId, FALSE))
             /\ UNCHANGED sessions
        ELSE IF auth.inviteToken # Null
        THEN /\ IF \/ auth.inviteToken \notin DOMAIN invites
                   \/ now > invites[auth.inviteToken].expiresAt
                THEN Refuse("Invalid or expired invite link")
                ELSE ViewerOnConnection(s,
                       Socket("viewer", invites[auth.inviteToken].userId, Null,
                              invites[auth.inviteToken].machineId, TRUE))
             /\ UNCHANGED sessions
        ELSE /\ sessions' = SessionsAfterCheck(auth.token)
             /\ IF ~isValidSession(auth.token) THEN Refuse("Authentication required")
                ELSE LET r    == IF auth.role = "none" THEN "viewer" ELSE auth.role
                         sock == Socket(r, sessions[auth.token].userId, Null,
                                        auth.machineId, FALSE)
                     IN CASE r = "viewer"    -> ViewerOnConnection(s, sock)
                          [] r = "dashboard" -> DashboardOnConnection(s, sock)
                          [] OTHER           -> OtherOnConnection(s, sock)
  /\ UNCHANGED <<now, machines, nextKey, nextToken, invites, nextInvite, loginHits, wakeHits>>
  /\ Wired

\* (mutant) the room is read as if the leaving socket were still in it
RoomBeforeLeave(s, room) == Members(rooms, room)

\* io.sockets.adapter.rooms.get(room) inside the 'disconnect' handler of s:
\* socket.io has taken s out of its rooms before it runs the handler
RoomAtDisconnect(s, room) == Members(Drop(rooms, s), room)

\* a viewer's 'disconnect' handler
ViewerDisconnect(s) ==
  /\ NoSave
  /\ s \in DOMAIN sockets
  /\ sockets[s].role = "viewer"
  /\ LET K == sockets[s].agentKey
     IN /\ rooms' = Drop(rooms, s)
        /\ trace' = IF K # Null /\ RoomAtDisconnect(s, viewerRoom(K)) = {}
                       /\ K \in DOMAIN agents /\ agents[K].connected
                    THEN << Emit(agents[K].socket, "stop-streaming", NoData) >>
                    ELSE << >>
  /\ sockets' = Drop(sockets, s)
  /\ resp' = Handled(s, "disconnect")
  /\ UNCHANGED <<now, machines, nextKey, sessions, nextToken, invites, nextInvite,
                 agents, loginHits, wakeHits>>
  /\ Wired

\* a dashboard's (empty) 'disconnect' handler, and a socket without handlers leaving
OtherDisconnect(s) ==
  /\ NoSave
  /\ s \in DOMAIN sockets
  /\ sockets[s].role \notin {"agent", "viewer"}
  /\ sockets' = Drop(sockets, s)
  /\ rooms' = Drop(rooms, s)
  /\ trace' = << >>
  /\ resp' = Handled(s, "disconnect")
  /\ UNCHANGED <<now, machines, nextKey, sessions, nextToken, invites, nextInvite,
                 agents, loginHits, wakeHits>>
  /\ Wired

----------------------------------------------------------------------------
(* server.js : viewer events *)

AgentOf(s) ==
  IF sockets[s].agentKey # Null /\ sockets[s].agentKey \in DOMAIN agents
  THEN agents[sockets[s].agentKey] ELSE NullRec

\* (mutant) the event goes to every agent socket
ForwardToEveryAgent(s, ev, data) ==
  IF AgentOf(s) # NullRec /\ AgentOf(s).connected
  THEN << Effect("emit", {agents[k].socket : k \in DOMAIN agents}, ev, data) >> ELSE << >>

\* (mutant) the event is emitted to the agent twice
ForwardTwice(s, ev, data) ==
  IF AgentOf(s) # NullRec /\ AgentOf(s).connected
  THEN << Emit(AgentOf(s).socket, ev, data), Emit(AgentOf(s).socket, ev, data) >> ELSE << >>

\* (mutant) a viewer without agent is told so
ForwardOrError(s, ev, data) ==
  IF AgentOf(s) # NullRec /\ AgentOf(s).connected
  THEN << Emit(AgentOf(s).socket, ev, data) >>
  ELSE << Emit(s, "error", [message |-> "Agent offline"]) >>

\* if (agent?.connected) agent.socket.emit(ev, data)
Forward(s, ev, data) ==
  IF AgentOf(s) # NullRec /\ AgentOf(s).connected
  THEN << Emit(AgentOf(s).socket, ev, data) >> ELSE << >>

\* a JavaScript value in a payload field: an integer, the number v + 1/2, an infinity
\* (what JSON.parse makes of 1e999), NaN (which no JSON text yields), a string, an array
\* of strings, an array that holds a number, or absent
Num(v) == [t |-> "number", n |-> v, s |-> ""]
Frac(v) == [t |-> "fraction", n |-> v, s |-> ""]
Inf(sign) == [t |-> "Infinity", n |-> sign, s |-> ""]
NaN    == [t |-> "NaN", n |-> 0, s |-> ""]
Str(v) == [t |-> "string", n |-> 0, s |-> v]
Undef  == [t |-> "undefined", n |-> 0, s |-> ""]
Arr    == [t |-> "array", n |-> 0, s |-> ""]
ArrOfNumber == [t |-> "array", n |-> 1, s |-> ""]

\* (mutant) any finite number is a coordinate
validCoordAnyNumber(v) == v.t = "number"

validCoord(v) == \/ v.t = "number" /\ v.n >= -10 /\ v.n <= 100000
                 \/ v.t = "fraction" /\ v.n >= -10 /\ v.n < 100000
validButton(v) == v \in {Str("left"), Str("right"), Str("middle")}
validMouse(d) == d # NullRec /\ validCoord(d.x) /\ validCoord(d.y)

Truthy(v) == \/ v.t = "number" /\ v.n # 0
             \/ v.t \in {"fraction", "Infinity"}
             \/ v.t = "string" /\ v.s # ""
             \/ v.t = "array"

MouseEvents == {"mouse-move", "mouse-click", "mouse-double-click",
                "mouse-right-click", "mouse-down", "mouse-up"}

\* the handler of the six mouse events
ViewerMouse(s, ev, data) ==
  /\ NoSave
  /\ s \in DOMAIN sockets
  /\ sockets[s].role = "viewer"
  /\ ev \in MouseEvents
  /\ trace' = IF ~validMouse(data) THEN << >>
              ELSE IF Truthy(data.button) /\ ~validButton(data.button) THEN << >>
              ELSE Forward(s, ev, data)
  /\ resp' = Handled(s, "event")
  /\ UNCHANGED <<now, machines, nextKey, sessions, nextToken, invites, nextInvite,
                 agents, sockets, rooms, loginHits, wakeHits>>
  /\ Wired

\* typeof v === 'number' (NaN is a number), typeof v === 'string'
TypeofNumber(v) == v.t \in {"number", "fraction", "Infinity", "NaN"}
TypeofString(v) == v.t = "string"

\* v < k and v > k for a JavaScript value: false when v is NaN or not a number
Lt(v, k) == \/ v.t \in {"number", "fraction"} /\ v.n < k
            \/ v.t = "Infinity" /\ v.n < 0
Gt(v, k) == \/ v.t = "number" /\ v.n > k
            \/ v.t = "fraction" /\ v.n >= k
            \/ v.t = "Infinity" /\ v.n > 0

validScroll(d) == validMouse(d) /\ TypeofNumber(d.deltaX) /\ TypeofNumber(d.deltaY)
validKey(d) == d # NullRec /\ TypeofString(d.key) /\ Len(d.key.s) <= 20

\* 'mouse-scroll'
ViewerMouseScroll(s, data) ==
  /\ NoSave
  /\ s \in DOMAIN sockets
  /\ sockets[s].role = "viewer"
  /\ trace' = IF ~validScroll(data) THEN << >> ELSE Forward(s, "mouse-scroll", data)
  /\ resp' = Handled(s, "event")
  /\ UNCHANGED <<now, machines, nextKey, sessions, nextToken, invites, nextInvite,
                 agents, sockets, rooms, loginHits, wakeHits>>
  /\ Wired

\* 'key-press'
ViewerKeyPress(s, data) ==
  /\ NoSave
  /\ s \in DOMAIN sockets
  /\ sockets[s].role = "viewer"
  /\ trace' = IF ~validKey(data) THEN << >>
              ELSE IF Truthy(data.modifiers) /\ data.modifiers.t # "array" THEN << >>
              ELSE Forward(s, "key-press", data)
  /\ resp' = Handled(s, "event")
  /\ UNCHANGED <<now, machines, nextKey, sessions, nextToken, invites, nextInvite,
                 agents, sockets, rooms, loginHits, wakeHits>>
  /\ Wired

\* 'key-type'
ViewerKeyType(s, data) ==
  /\ NoSave
  /\ s \in DOMAIN sockets
  /\ sockets[s].role = "viewer"
  /\ trace' = IF data = NullRec \/ ~TypeofString(data.text) \/ Len(data.text.s) > 500
              THEN << >> ELSE Forward(s, "key-type", data)
  /\ resp' = Handled(s, "event")
  /\ UNCHANGED <<now, machines, nextKey, sessions, nextToken, invites, nextInvite,
                 agents, sockets, rooms, loginHits, wakeHits>>
  /\ Wired

\* 'update-quality'
ViewerUpdateQuality(s, data) ==
  /\ NoSave
  /\ s \in DOMAIN sockets
  /\ sockets[s].role = "viewer"
  /\ trace' = IF \/ data = NullRec
                 \/ ~TypeofNumber(data.quality)
                 \/ Lt(data.quality, 10)
                 \/ Gt(data.quality, 100)
              THEN << >> ELSE Forward(s, "update-quality", data)
  /\ resp' = Handled(s, "event")
  /\ UNCHANGED <<now, machines, nextKey, sessions, nextToken, invites, nextInvite,
                 agents, sockets, rooms, loginHits, wakeHits>>
  /\ Wired

\* 'update-fps'
ViewerUpdateFps(s, data) ==
  /\ NoSave
  /\ s \in DOMAIN sockets
  /\ sockets[s].role = "viewer"
  /\ trace' = IF \/ data = NullRec
                 \/ ~TypeofNumber(data.fps)
                 \/ Lt(data.fps, 1)
                 \/ Gt(data.fps, 60)
              THEN << >> ELSE Forward(s, "update-fps", data)
  /\ resp' = Handled(s, "event")
  /\ UNCHANGED <<now, machines, nextKey, sessions, nextToken, invites, nextInvite,
                 agents, sockets, rooms, loginHits, wakeHits>>
  /\ Wired

\* the events whose handler takes no argument and emits none
Bare == {"list-screens", "clipboard-read"}

\* 'list-screens', 'switch-screen', 'clipboard-write', 'clipboard-read': no validation
ViewerCommand(s, ev, data) ==
  /\ NoSave
  /\ s \in DOMAIN sockets
  /\ sockets[s].role = "viewer"
  /\ ev \in {"list-screens", "switch-screen", "clipboard-write", "clipboard-read"}
  /\ trace' = Forward(s, ev, IF ev \in Bare THEN NoData ELSE data)
  /\ resp' = Handled(s, "event")
  /\ UNCHANGED <<now, machines, nextKey, sessions, nextToken, invites, nextInvite,
                 agents, sockets, rooms, loginHits, wakeHits>>
  /\ Wired

\* the handler socket.on(ev, ...) of a viewer socket, for the events sent on to agents
ViewerEvent(s, ev, data) ==
  \/ ev \in MouseEvents /\ ViewerMouse(s, ev, data)
  \/ ev = "mouse-scroll" /\ ViewerMouseScroll(s, data)
  \/ ev = "key-press" /\ ViewerKeyPress(s, data)
  \/ ev = "key-type" /\ ViewerKeyType(s, data)
  \/ ev = "update-quality" /\ ViewerUpdateQuality(s, data)
  \/ ev = "update-fps" /\ ViewerUpdateFps(s, data)
  \/ ViewerCommand(s, ev, data)

\* (mutant) the pong goes out through the agent and carries nothing
ViewerLatencyPingViaAgent(s, data) ==
  /\ NoSave
  /\ s \in DOMAIN sockets
  /\ sockets[s].role = "viewer"
  /\ trace' = Forward(s, "latency-ping", data) \o << Emit(s, "latency-pong", NoData) >>
  /\ resp' = Handled(s, "event")
  /\ UNCHANGED <<now, machines, nextKey, sessions, nextToken, invites, nextInvite,
                 agents, sockets, rooms, loginHits, wakeHits>>
  /\ Wired

\* 'latency-ping'
ViewerLatencyPing(s, data) ==
  /\ NoSave
  /\ s \in DOMAIN sockets
  /\ sockets[s].role = "viewer"
  /\ trace' = << Emit(s, "latency-pong", data) >>
  /\ resp' = Handled(s, "event")
  /\ UNCHANGED <<now, machines, nextKey, sessions, nextToken, invites, nextInvite,
                 agents, sockets, rooms, loginHits, wakeHits>>
  /\ Wired

----------------------------------------------------------------------------
(* server.js : HTTP routes *)

\* express-rate-limit: count the request, refuse it once the count exceeds max
Hit(hits, src, max) == [hits EXCEPT ![src] = IF @ > max THEN @ ELSE @ + 1]
\* (mutant) the request that reaches max is refused already
LimitedFromMax(hits, src, max) == Hit(hits, src, max)[src] >= max

Limited(hits, src, max) == Hit(hits, src, max)[src] > max

Http(status, body) ==
  /\ resp' = Reply(status, body)
  /\ trace' = << >>

\* POST /api/login
Login(src, password) ==
  /\ NoSave
  /\ loginHits' = Hit(loginHits, src, MAX_LOGIN_ATTEMPTS)
  /\ IF Limited(loginHits, src, MAX_LOGIN_ATTEMPTS)
     THEN Http(429, "Too many login attempts") /\ UNCHANGED <<sessions, nextToken>>
     ELSE IF password = NullStr
     THEN Http(400, "Password required") /\ UNCHANGED <<sessions, nextToken>>
     ELSE IF password \notin Users
     THEN Http(401, "Wrong password") /\ UNCHANGED <<sessions, nextToken>>
     ELSE /\ nextToken <= MaxTokens
          /\ sessions' = Put(sessions, nextToken,
                             [userId |-> password, created |-> now, lastActive |-> now])
          /\ nextToken' = nextToken + 1
          /\ Http(200, "token")
  /\ UNCHANGED <<now, machines, nextKey, invites, nextInvite, agents, sockets, rooms,
                 wakeHits>>
  /\ Wired

\* POST /api/logout
Logout(token) ==
  /\ NoSave
  /\ sessions' = IF token # Null /\ token \in DOMAIN sessions
                 THEN Drop(sessions, token) ELSE sessions
  /\ Http(200, "ok")
  /\ UNCHANGED <<now, machines, nextKey, nextToken, invites, nextInvite, agents,
                 sockets, rooms, loginHits, wakeHits>>
  /\ Wired

\* GET /api/session
SessionCheck(token) ==
  /\ NoSave
  /\ sessions' = SessionsAfterCheck(token)
  /\ IF isValidSession(token) THEN Http(200, "valid") ELSE Http(401, "invalid")
  /\ UNCHANGED <<now, machines, nextKey, nextToken, invites, nextInvite, agents,
                 sockets, rooms, loginHits, wakeHits>>
  /\ Wired

ReadRoutes == {"user-status", "machines", "agent-info"}

\* GET /api/user-status/:userId, GET /api/machines/:userId, GET /api/agent-info/:userId
ReadRoute(route, token, userId) ==
  /\ NoSave
  /\ route \in ReadRoutes
  /\ sessions' = SessionsAfterCheck(token)
  /\ LET a == Authorize(token, userId)
     IN IF a = 401 THEN Http(401, "Unauthorized")
        ELSE IF a = 403 THEN Http(403, "Forbidden")
        ELSE Http(200, route)
  /\ UNCHANGED <<now, machines, nextKey, nextToken, invites, nextInvite, agents,
                 sockets, rooms, loginHits, wakeHits>>
  /\ Wired

\* POST /api/machines/:userId
AddMachine(token, userId, name) ==
  /\ Alive
  /\ sessions' = SessionsAfterCheck(token)
  /\ LET a == Authorize(token, userId)
     IN IF a = 401 THEN Http(401, "Unauthorized") /\ UNCHANGED <<machines, nextKey, disk>>
        ELSE IF a = 403 THEN Http(403, "Forbidden") /\ UNCHANGED <<machines, nextKey, disk>>
        ELSE /\ Len(machines[userId]) < MaxMachines
             /\ nextKey <= MaxKeys
             /\ machines' = [machines EXCEPT ![userId] =
                               addMachine(userId, IF name = NullStr THEN "New Machine" ELSE name)]
             /\ nextKey' = nextKey + 1
             /\ disk' = Stringify(machines')
             /\ Http(200, "machine")
  /\ UNCHANGED <<now, nextToken, invites, nextInvite, agents, sockets, rooms,
                 loginHits, wakeHits>>
  /\ Wired

\* DELETE /api/machines/:userId/:machineId
DeleteMachine(token, userId, machineId) ==
  /\ Alive
  /\ sessions' = SessionsAfterCheck(token)
  /\ LET a == Authorize(token, userId)
     IN IF a = 401 THEN Http(401, "Unauthorized") /\ UNCHANGED <<machines, disk>>
        ELSE IF a = 403 THEN Http(403, "Forbidden") /\ UNCHANGED <<machines, disk>>
        ELSE IF getMachine(userId, machineId) = NullRec
        THEN Http(404, "Machine not found") /\ UNCHANGED <<machines, disk>>
        ELSE /\ machines' = [machines EXCEPT ![userId] = removeMachine(userId, machineId)]
             /\ disk' = Stringify(machines')
             /\ Http(200, "ok")
  /\ UNCHANGED <<now, nextKey, nextToken, invites, nextInvite, agents, sockets, rooms,
                 loginHits, wakeHits>>
  /\ Wired

\* PATCH /api/machines/:userId/:machineId
RenameMachine(token, userId, machineId, name) ==
  /\ Alive
  /\ sessions' = SessionsAfterCheck(token)
  /\ LET a == Authorize(token, userId)
     IN IF a = 401 THEN Http(401, "Unauthorized") /\ UNCHANGED <<machines, disk>>
        ELSE IF a = 403 THEN Http(403, "Forbidden") /\ UNCHANGED <<machines, disk>>
        ELSE IF name = NullStr
        THEN Http(400, "Name required") /\ UNCHANGED <<machines, disk>>
        ELSE IF getMachine(userId, machineId) = NullRec
        THEN Http(404, "Machine not found") /\ UNCHANGED <<machines, disk>>
        ELSE /\ machines' = [machines EXCEPT ![userId] =
                               renameMachine(userId, machineId, name)]
             /\ disk' = Stringify(machines')
             /\ Http(200, "ok")
  /\ UNCHANGED <<now, nextKey, nextToken, invites, nextInvite, agents, sockets, rooms,
                 loginHits, wakeHits>>
  /\ Wired

\* PATCH /api/machines/:userId/:machineId/mac
SetMac(token, userId, machineId, macAddress, broadcastAddress) ==
  /\ Alive
  /\ sessions' = SessionsAfterCheck(token)
  /\ LET a == Authorize(token, userId)
     IN IF a = 401 THEN Http(401, "Unauthorized") /\ UNCHANGED <<machines, disk>>
        ELSE IF a = 403 THEN Http(403, "Forbidden") /\ UNCHANGED <<machines, disk>>
        ELSE IF macAddress # NullStr /\ macAddress \notin Macs
        THEN Http(400, "Invalid MAC address") /\ UNCHANGED <<machines, disk>>
        ELSE IF broadcastAddress # NullStr /\ broadcastAddress \notin Broadcasts
        THEN Http(400, "Invalid broadcast IP address") /\ UNCHANGED <<machines, disk>>
        ELSE IF getMachine(userId, machineId) = NullRec
        THEN Http(404, "Machine not found") /\ UNCHANGED <<machines, disk>>
        ELSE /\ machines' = [machines EXCEPT ![userId] =
                               setMacAddress(userId, machineId, macAddress, broadcastAddress)]
             /\ disk' = Stringify(machines')
             /\ Http(200, "ok")
  /\ UNCHANGED <<now, nextKey, nextToken, invites, nextInvite, agents, sockets, rooms,
                 loginHits, wakeHits>>
  /\ Wired

\* (mutant) the route never looks whether the machine is online
WakeAlways(src, token, userId, machineId, sendFails) ==
  /\ NoSave
  /\ wakeHits' = Hit(wakeHits, src, WAKE_MAX)
  /\ IF Limited(wakeHits, src, WAKE_MAX)
     THEN Http(429, "Too many wake attempts") /\ UNCHANGED sessions
     ELSE
       /\ sessions' = SessionsAfterCheck(token)
       /\ LET a       == Authorize(token, userId)
              machine == getMachine(userId, machineId)
          IN IF a = 401 THEN Http(401, "Unauthorized")
             ELSE IF a = 403 THEN Http(403, "Forbidden")
             ELSE IF machine = NullRec THEN Http(404, "Machine not found")
             ELSE IF machine.macAddress = NullStr THEN Http(400, "No MAC address")
             ELSE /\ trace' = << Effect("wol", {}, machine.macAddress,
                                        [address |-> IF machine.broadcastAddress = NullStr
                                                     THEN "255.255.255.255"
                                                     ELSE machine.broadcastAddress,
                                         port |-> 9]) >>
                  /\ resp' = IF sendFails THEN Reply(500, "Failed to send WoL packet")
                             ELSE Reply(200, "Wake-on-LAN packet sent")
  /\ UNCHANGED <<now, machines, nextKey, nextToken, invites, nextInvite, agents,
                 sockets, rooms, loginHits>>
  /\ Wired

\* (mutant) the route is mounted without wakeLimiter
WakeNoLimit(src, token, userId, machineId, sendFails) ==
  /\ NoSave
  /\ wakeHits' = Hit(wakeHits, src, WAKE_MAX)
  /\ sessions' = SessionsAfterCheck(token)
  /\ LET a       == Authorize(token, userId)
         machine == getMachine(userId, machineId)
     IN IF a = 401 THEN Http(401, "Unauthorized")
        ELSE IF a = 403 THEN Http(403, "Forbidden")
        ELSE IF machine = NullRec THEN Http(404, "Machine not found")
        ELSE IF machine.macAddress = NullStr THEN Http(400, "No MAC address")
        ELSE IF machine.agentKey \in DOMAIN agents /\ agents[machine.agentKey].connected
        THEN Http(200, "alreadyOnline")
        ELSE /\ trace' = << Effect("wol", {}, machine.macAddress,
                                   [address |-> IF machine.broadcastAddress = NullStr
                                                THEN "255.255.255.255"
                                                ELSE machine.broadcastAddress,
                                    port |-> 9]) >>
             /\ resp' = IF sendFails THEN Reply(500, "Failed to send WoL packet")
                        ELSE Reply(200, "Wake-on-LAN packet sent")
  /\ UNCHANGED <<now, machines, nextKey, nextToken, invites, nextInvite, agents,
                 sockets, rooms, loginHits>>
  /\ Wired

\* POST /api/machines/:userId/:machineId/wake ; sendFails: wol.wake reports an error
Wake(src, token, userId, machineId, sendFails) ==
  /\ NoSave
  /\ wakeHits' = Hit(wakeHits, src, WAKE_MAX)
  /\ IF Limited(wakeHits, src, WAKE_MAX)
     THEN Http(429, "Too many wake attempts") /\ UNCHANGED sessions
     ELSE
       /\ sessions' = SessionsAfterCheck(token)
       /\ LET a       == Authorize(token, userId)
              machine == getMachine(userId, machineId)
          IN IF a = 401 THEN Http(401, "Unauthorized")
             ELSE IF a = 403 THEN Http(403, "Forbidden")
             ELSE IF machine = NullRec THEN Http(404, "Machine not found")
             ELSE IF machine.macAddress = NullStr THEN Http(400, "No MAC address")
             ELSE IF machine.agentKey \in DOMAIN agents /\ agents[machine.agentKey].connected
             THEN Http(200, "alreadyOnline")
             ELSE /\ trace' = << Effect("wol", {}, machine.macAddress,
                                        [address |-> IF machine.broadcastAddress = NullStr
                                                     THEN "255.255.255.255"
                                                     ELSE machine.broadcastAddress,
                                         port |-> 9]) >>
                  /\ resp' = IF sendFails THEN Reply(500, "Failed to send WoL packet")
                             ELSE Reply(200, "Wake-on-LAN packet sent")
  /\ UNCHANGED <<now, machines, nextKey, nextToken, invites, nextInvite, agents,
                 sockets, rooms, loginHits>>
  /\ Wired

\* POST /api/invites/:userId/:machineId
CreateInvite(token, userId, machineId) ==
  /\ NoSave
  /\ sessions' = SessionsAfterCheck(token)
  /\ LET a       == Authorize(token, userId)
         machine == getMachine(userId, machineId)
     IN IF a = 401 THEN Http(401, "Unauthorized") /\ UNCHANGED <<invites, nextInvite>>
        ELSE IF a = 403 THEN Http(403, "Forbidden") /\ UNCHANGED <<invites, nextInvite>>
        ELSE IF machine = NullRec
        THEN Http(404, "Machine not found") /\ UNCHANGED <<invites, nextInvite>>
        ELSE /\ nextInvite <= MaxInvites
             /\ invites' = Put(invites, nextInvite,
                               [userId |-> userId, machineId |-> machineId,
                                machineName |-> machine.name,
                                expiresAt |-> now + INVITE_TTL])
             /\ nextInvite' = nextInvite + 1
             /\ Http(200, "inviteToken")
  /\ UNCHANGED <<now, machines, nextKey, nextToken, agents, sockets, rooms,
                 loginHits, wakeHits>>
  /\ Wired

\* GET /api/invite-info/:inviteToken
InviteInfo(inviteToken) ==
  /\ NoSave
  /\ IF inviteToken \notin DOMAIN invites \/ now > invites[inviteToken].expiresAt
     THEN Http(404, "Invalid or expired invite link")
     ELSE Http(200, "invite-info")
  /\ UNCHANGED <<now, machines, nextKey, sessions, nextToken, invites, nextInvite,
                 agents, sockets, rooms, loginHits, wakeHits>>
  /\ Wired

\* (mutant) any signed-in user revokes any invite through their own path
RevokeInviteAnyOwner(token, userId, inviteToken) ==
  /\ NoSave
  /\ sessions' = SessionsAfterCheck(token)
  /\ LET a == Authorize(token, userId)
     IN IF a = 401 THEN Http(401, "Unauthorized") /\ UNCHANGED invites
        ELSE IF a = 403 THEN Http(403, "Forbidden") /\ UNCHANGED invites
        ELSE IF inviteToken \notin DOMAIN invites
        THEN Http(404, "Invite not found") /\ UNCHANGED invites
        ELSE /\ invites' = Drop(invites, inviteToken)
             /\ Http(200, "ok")
  /\ UNCHANGED <<now, machines, nextKey, nextToken, nextInvite, agents, sockets, rooms,
                 loginHits, wakeHits>>
  /\ Wired

\* DELETE /api/invites/:userId/:inviteToken
RevokeInvite(token, userId, inviteToken) ==
  /\ NoSave
  /\ sessions' = SessionsAfterCheck(token)
  /\ LET a == Authorize(token, userId)
     IN IF a = 401 THEN Http(401, "Unauthorized") /\ UNCHANGED invites
        ELSE IF a = 403 THEN Http(403, "Forbidden") /\ UNCHANGED invites
        ELSE IF inviteToken \notin DOMAIN invites \/ invites[inviteToken].userId # userId
        THEN Http(404, "Invite not found") /\ UNCHANGED invites
        ELSE /\ invites' = Drop(invites, inviteToken)
             /\ Http(200, "ok")
  /\ UNCHANGED <<now, machines, nextKey, nextToken, nextInvite, agents, sockets, rooms,
                 loginHits, wakeHits>>
  /\ Wired

----------------------------------------------------------------------------
(* time *)

\* d days pass; both rate-limit windows (15 min, 1 min) have ended by then
Pass(d) ==
  /\ UNCHANGED <<up, disk, proc>>
  /\ now + d <= StartTime + MaxTime
  /\ now' = now + d
  /\ loginHits' = [s \in Sources |-> 0]
  /\ wakeHits' = [s \in Sources |-> 0]
  /\ trace' = << >>
  /\ resp' = Reply(0, "tick")
  /\ UNCHANGED <<machines, nextKey, sessions, nextToken, invites, nextInvite, agents,
                 sockets, rooms>>
  /\ Wired

\* a day passes
Tick == Pass(1)

\* the setInterval session sweep
Sweep ==
  /\ NoSave
  /\ sessions' = [t \in {x \in DOMAIN sessions :
                           ~(now - sessions[x].lastActive > SESSION_TTL)} |-> sessions[t]]
  /\ trace' = << >>
  /\ resp' = Reply(0, "sweep")
  /\ UNCHANGED <<now, machines, nextKey, nextToken, invites, nextInvite, agents,
                 sockets, rooms, loginHits, wakeHits>>
  /\ Wired

----------------------------------------------------------------------------
(* users.js : _save interrupted, and the next start *)

MutationOps == {"add", "remove", "rename"}

\* the route of a mutation gets as far as UserStore._save
ReachesSave(op, token, userId, machineId, name) ==
  /\ Authorize(token, userId) = 200
  /\ op = "add" => Len(machines[userId]) < MaxMachines /\ nextKey <= MaxKeys
  /\ op = "remove" => getMachine(userId, machineId) # NullRec
  /\ op = "rename" => name # NullStr /\ getMachine(userId, machineId) # NullRec

\* this.users when _save is called
Mutated(op, userId, machineId, name) ==
  [machines EXCEPT ![userId] =
     IF op = "add" THEN addMachine(userId, IF name = NullStr THEN "New Machine" ELSE name)
     ELSE IF op = "remove" THEN removeMachine(userId, machineId)
     ELSE renameMachine(userId, machineId, name)]

\* the file when writeFileSync stops after n pieces of the text; n = -1: it stops
\* before the file is opened for writing
Interrupted(doc, n) == IF n = -1 THEN disk ELSE Written(Stringify(doc), n)

\* fs.writeFileSync throws (the file cannot be opened, or the device fails or fills
\* up after n pieces): nothing catches it before the default error handler of
\* Express, which answers 500; this.users is already changed
SaveFails(op, token, userId, machineId, name, n) ==
  /\ Alive
  /\ op \in MutationOps
  /\ ReachesSave(op, token, userId, machineId, name)
  /\ n \in -1 .. Len(Stringify(Mutated(op, userId, machineId, name))) - 1
  /\ sessions' = SessionsAfterCheck(token)
  /\ machines' = Mutated(op, userId, machineId, name)
  /\ nextKey' = IF op = "add" THEN nextKey + 1 ELSE nextKey
  /\ disk' = Interrupted(machines', n)
  /\ Http(500, "Internal Server Error")
  /\ UNCHANGED <<now, nextToken, invites, nextInvite, agents, sockets, rooms,
                 loginHits, wakeHits>>
  /\ Wired

\* the process is killed inside fs.writeFileSync, after n pieces of the text: all that
\* lived in its memory is gone
Killed(op, token, userId, machineId, name, n) ==
  /\ up
  /\ op \in MutationOps
  /\ ReachesSave(op, token, userId, machineId, name)
  /\ n \in -1 .. Len(Stringify(Mutated(op, userId, machineId, name)))
  /\ up' = FALSE
  /\ disk' = Interrupted(Mutated(op, userId, machineId, name), n)
  /\ machines' = [u \in Users |-> << >>]
  /\ nextKey' = IF op = "add" THEN nextKey + 1 ELSE nextKey
  /\ sessions' = Empty
  /\ invites' = Empty
  /\ agents' = Empty
  /\ sockets' = Empty
  /\ rooms' = Empty
  /\ loginHits' = [s \in Sources |-> 0]
  /\ wakeHits' = [s \in Sources |-> 0]
  /\ trace' = << >>
  /\ resp' = Reply(0, "killed")
  /\ UNCHANGED <<now, nextToken, nextInvite, proc>>
  /\ Wired

\* start(): users.init() reads and parses the file, then the server listens; when
\* JSON.parse throws, start() rejects, the error is logged and nothing listens
Boot ==
  /\ ~up
  /\ IF ParseOk(disk)
     THEN /\ up' = TRUE
          /\ machines' = Parse(disk)
          /\ resp' = Reply(0, "boot")
     ELSE /\ UNCHANGED <<up, machines>>
          /\ resp' = Reply(0, "boot failed")
  /\ trace' = << >>
  /\ UNCHANGED <<now, nextKey, sessions, nextToken, invites, nextInvite, agents,
                 sockets, rooms, loginHits, wakeHits, disk, proc>>
  /\ Wired

----------------------------------------------------------------------------
(* inputs *)

TokenInputs     == 0 .. MaxTokens            \* no bearer, minted and never-minted tokens
InviteInputs    == 1 .. MaxInvites
KeyInputs       == 0 .. MaxKeys
PasswordInputs  == Users \cup {"wrong", NullStr}
StoredMachineIds == UNION {{machines[u][i].id : i \in 1 .. Len(machines[u])} : u \in Users}
MachineIdInputs == StoredMachineIds \cup {invites[i].machineId : i \in DOMAIN invites}
                   \cup {Null}
AgentAuth(k)         == Auth("agent", k, Null, Null, Null)
InviteAuth(i)        == Auth("viewer", Null, i, Null, Null)
SessionAuth(t, r, m) == Auth(r, Null, Null, t, m)
GoodMouse == [x |-> Num(5), y |-> Num(5), button |-> Undef]
BadMouse  == [x |-> Str("NaN"), y |-> Num(5), button |-> Undef]

\* {x, y, button}
Mouse(x, y, button) == [x |-> x, y |-> y, button |-> button]

\* what a viewer may send with a mouse event: good payloads at the edges of the
\* range, {}, null, and payloads with a coordinate that is a string, missing, NaN or
\* out of range, or with a button that is not one
MousePayloads ==
  { GoodMouse, BadMouse, NullRec,
    Mouse(Num(-10), Num(100000), Str("left")),
    Mouse(Undef, Undef, Undef),
    Mouse(Num(5), Undef, Undef),
    Mouse(NaN, Num(5), Undef),
    Mouse(Num(-11), Num(5), Undef),
    Mouse(Num(5), Num(100001), Str("left")),
    Mouse(Num(5), Num(5), Str("bogus")) }

\* a string of n times the character c
RECURSIVE Rep(_, _)
Rep(c, n) == IF n = 0 THEN ""
             ELSE IF n % 2 = 0 THEN LET h == Rep(c, n \div 2) IN h \o h
             ELSE c \o Rep(c, n - 1)

\* {x, y, deltaX, deltaY}
Scroll(x, y, dx, dy) == [x |-> x, y |-> y, deltaX |-> dx, deltaY |-> dy]

ScrollPayloads ==
  { Scroll(Num(5), Num(5), Num(0), Num(-3)),
    Scroll(Num(5), Num(5), Inf(1), Num(1)),
    Scroll(Num(5), Num(5), Num(1), Inf(-1)),
    Scroll(Num(5), Num(5), Frac(1), Num(1)),
    Scroll(Num(5), Inf(1), Num(1), Num(1)),
    Scroll(Num(5), Num(5), Num(1), Undef),
    Scroll(Str("5"), Num(5), Num(1), Num(1)),
    NullRec }

\* {key, modifiers}
KeyPayloads ==
  { [key |-> Str("a"), modifiers |-> Undef],
    [key |-> Str("Enter"), modifiers |-> Arr],
    [key |-> Str(Rep("k", 20)), modifiers |-> Str("")],
    [key |-> Str("a"), modifiers |-> Str("ctrl")],
    [key |-> Str("a"), modifiers |-> ArrOfNumber],
    [key |-> Str(Rep("k", 21)), modifiers |-> Undef],
    [key |-> Num(65), modifiers |-> Undef],
    NullRec }

\* {text}
TextPayloads ==
  { [text |-> Str("hello")], [text |-> Str(Rep("a", 500))], [text |-> Str(Rep("a", 501))],
    [text |-> Undef], NullRec }

\* {quality}
QualityPayloads ==
  { [quality |-> Num(10)], [quality |-> Num(100)],
    [quality |-> Num(9)], [quality |-> Num(101)], [quality |-> Str("80")],
    [quality |-> Frac(50)], [quality |-> Frac(9)], [quality |-> Inf(1)], NullRec }

\* {fps}
FpsPayloads ==
  { [fps |-> Num(1)], [fps |-> Num(60)], [fps |-> Num(0)], [fps |-> Num(61)],
    [fps |-> Frac(30)], [fps |-> Frac(60)], [fps |-> Inf(-1)],
    [fps |-> Undef], NullRec }

\* the events a viewer sends on to its agent, each with the payloads it may carry
EventInputs ==
  (MouseEvents \X MousePayloads)
  \cup ({"mouse-scroll"} \X ScrollPayloads)
  \cup ({"key-press"} \X KeyPayloads)
  \cup ({"key-type"} \X TextPayloads)
  \cup ({"update-quality"} \X QualityPayloads)
  \cup ({"update-fps"} \X FpsPayloads)
  \cup ({"switch-screen"} \X {[index |-> Num(1)]})
  \cup ({"clipboard-write"} \X {[text |-> Str("hello")]})
  \cup (Bare \X {NoData})

----------------------------------------------------------------------------
(* Agents of both users connect, drop and evict each other while the owner   *)
(* kingpin logs in, adds and deletes machines, and opens viewers and         *)
(* dashboards.  The clock stands still.                                     *)

AgentNext ==
  \/ Login("ip1", "kingpin")
  \/ \E t \in TokenInputs : AddMachine(t, "kingpin", NullStr)
  \/ \E t \in TokenInputs, m \in MachineIdInputs : DeleteMachine(t, "kingpin", m)
  \/ \E k \in KeyInputs : Handshake(AgentAuth(k))
  \/ \E t \in TokenInputs, r \in {"viewer", "dashboard"}, m \in MachineIdInputs :
       Handshake(SessionAuth(t, r, m))
  \/ \E s \in SockIds : AgentDisconnect(s)
  \/ \E s \in SockIds : ViewerDisconnect(s)
  \/ \E s \in SockIds : OtherDisconnect(s)

SpecAgent == Init /\ [][AgentNext]_vars

(* helpers of the properties *)

AgentSockets(K) == {s \in DOMAIN sockets : sockets[s].role = "agent" /\ sockets[s].agentKey = K}
ViewerGroup(K)  == Members(rooms, viewerRoom(K))
Sent(ev)        == {i \in 1 .. Len(trace) : trace[i].op \in {"emit", "volatile"} /\ trace[i].ev = ev}
Did(op)         == {i \in 1 .. Len(trace) : trace[i].op = op}
EvictionRan     == Sent("kicked") # {}

\* C1: for every agent key K the registry holds at most one agent connection, and at
\* most one connected agent socket is authenticated with K (the registered one).
C1_SingleAgent ==
  \A K \in Keys :
    /\ Cardinality(AgentSockets(K)) <= 1
    /\ K \in DOMAIN agents => AgentSockets(K) = {agents[K].socket}

\* a second agent has taken over a key: the eviction ran and the newcomer is registered
C1_Witness ==
  /\ EvictionRan
  /\ \E K \in DOMAIN agents : resp = Handled(agents[K].socket, "connected")

\* C2: when an agent handshakes successfully with a key K that already has a registered
\* agent, the prior socket is sent `kicked` (reason 'Another agent connected for this
\* machine'), is then disconnected, and its registry entry is deleted before the
\* replacement is registered for K.
C2_EvictionOrder ==
  [][\A K \in Keys :
       (K \in DOMAIN agents /\ K \in DOMAIN agents' /\ agents'[K].socket # agents[K].socket)
       => LET old == agents[K].socket
              new == agents'[K].socket
          IN \E i, j, k, l \in 1 .. Len(trace') :
               /\ i < j /\ j < k /\ k < l
               /\ trace'[i] = Emit(old, "kicked",
                                   [reason |-> "Another agent connected for this machine"])
               /\ trace'[j] = Effect("disconnect", {old}, "socket", NoData)
               /\ trace'[k] = Effect("agents.delete", {}, "registry",
                                     [key |-> K, socket |-> Null])
               /\ trace'[l] = Effect("agents.set", {}, "registry",
                                     [key |-> K, socket |-> new])
               /\ old \notin DOMAIN sockets'
    ]_vars

\* the handler that ran last kicked a socket, deleted its entry and registered another
C2_Witness ==
  /\ Sent("kicked") # {}
  /\ Did("disconnect") # {}
  /\ Did("agents.delete") # {}
  /\ Did("agents.set") # {}

\* C3 as stated: during an eviction no `agent-status {connected:false}` reaches the
\* viewers attached to the key.
C3_NoTransition ==
  EvictionRan =>
    \A i \in Sent("agent-status") : trace[i].to # {} => trace[i].data.connected

\* C3 amended: an eviction sends the viewer group of K `agent-status {connected:false}`
\* (the evicted socket's disconnect handler) and after it `agent-status {connected:true}`
\* (the registration), to the same viewers and nothing else about the status, so the
\* last status they are sent is connected:true.
C3_OffThenOn ==
  EvictionRan =>
    LET K == sockets[resp.socket].agentKey
        G == ViewerGroup(K)
    IN \E i, j \in 1 .. Len(trace) :
         /\ i < j
         /\ trace[i] = Effect("emit", G, "agent-status", [connected |-> FALSE])
         /\ trace[j] = Effect("emit", G, "agent-status", [connected |-> TRUE])
         /\ Sent("agent-status") = {i, j}

\* an eviction ran while a viewer was attached to the key
C3_Witness ==
  /\ EvictionRan
  /\ ViewerGroup(sockets[resp.socket].agentKey) # {}

\* C4: when a viewer attach makes the viewer group of a key K with a registered agent
\* go from empty to one member, that agent is sent exactly one `start-streaming` and
\* no other socket is sent one.
C4_StartStreaming ==
  \A s \in DOMAIN sockets :
    ( /\ resp = Handled(s, "connected")
      /\ sockets[s].role = "viewer"
      /\ sockets[s].agentKey \in DOMAIN agents
      /\ ViewerGroup(sockets[s].agentKey) = {s} )
    => /\ Cardinality(Sent("start-streaming")) = 1
       /\ \A i \in Sent("start-streaming") :
            trace[i].to = {agents[sockets[s].agentKey].socket}

\* a first viewer attached to a key whose agent is registered, with another agent around
C4_Witness ==
  \E s \in DOMAIN sockets :
    /\ resp = Handled(s, "connected")
    /\ sockets[s].role = "viewer"
    /\ sockets[s].agentKey \in DOMAIN agents
    /\ ViewerGroup(sockets[s].agentKey) = {s}
    /\ Cardinality(DOMAIN agents) = 2

\* C5: when a viewer of key K disconnects, `stop-streaming` is sent to the agent of K
\* exactly once if the viewer group of K is empty after the departure and an agent is
\* registered for K, and is not sent at all otherwise.
C5_StopStreaming ==
  [][\A s \in DOMAIN sockets :
       (sockets[s].role = "viewer" /\ s \notin DOMAIN sockets')
       => LET K == sockets[s].agentKey
          IN IF K \in DOMAIN agents /\ ViewerGroup(K) \ {s} = {}
             THEN trace' = << Emit(agents[K].socket, "stop-streaming", NoData) >>
             ELSE \A i \in 1 .. Len(trace') : trace'[i].ev # "stop-streaming"
    ]_vars

\* the last viewer of a key left and its agent was told to stop
C5_Witness ==
  /\ resp.body = "disconnect"
  /\ Sent("stop-streaming") # {}

----------------------------------------------------------------------------
(* Both users log in; machines are deleted and kingpin hands out invites     *)
(* while agents and viewers of both users connect, relay and leave.          *)

IsolationNext ==
  \/ \E p \in Users : Login("ip1", p)
  \/ \E t \in TokenInputs, u \in Users, m \in MachineIdInputs : DeleteMachine(t, u, m)
  \/ \E t \in TokenInputs, m \in MachineIdInputs : CreateInvite(t, "kingpin", m)
  \/ \E k \in KeyInputs : Handshake(AgentAuth(k))
  \/ \E i \in InviteInputs : Handshake(InviteAuth(i))
  \/ \E t \in TokenInputs, m \in MachineIdInputs : Handshake(SessionAuth(t, "viewer", m))
  \/ \E s \in SockIds : AgentDisconnect(s)
  \/ \E s \in SockIds : ViewerDisconnect(s)
  \/ \E s \in SockIds : AgentScreenInfo(s, "info1")
  \/ \E s \in SockIds, ev \in {"frame", "clipboard-content"} : AgentRelay(s, ev)
  \/ \E s \in SockIds : ViewerMouse(s, "mouse-move", GoodMouse)

SpecIsolation == Init /\ [][IsolationNext]_vars

AgentEvents == {"screen-info", "frame", "displays-list", "clipboard-content"}
KeysOf(u)   == {machines[u][i].agentKey : i \in 1 .. Len(machines[u])}

\* C6: an event originated by an agent whose key belongs to a machine of user U is
\* delivered only to viewer sockets authenticated as U, and an input event originated
\* by a viewer authenticated as U is delivered only to an agent whose key belongs to a
\* machine of U.
C6_Isolation ==
  (resp.body = "event" /\ resp.socket \in DOMAIN sockets) =>
    LET o == sockets[resp.socket]
    IN \A i \in 1 .. Len(trace) :
         /\ (o.role = "agent" /\ trace[i].ev \in AgentEvents)
            => \A u \in Users : o.agentKey \in KeysOf(u)
                 => \A v \in trace[i].to : sockets[v].role = "viewer" /\ sockets[v].userId = u
         /\ (o.role = "viewer" /\ trace[i].ev \in MouseEvents)
            => \A a \in trace[i].to :
                 sockets[a].role = "agent" /\ sockets[a].agentKey \in KeysOf(o.userId)

\* what holds of the relay: both ends of a relayed event authenticated as the same user
RelayWithinUser ==
  (resp.body = "event" /\ resp.socket \in DOMAIN sockets) =>
    \A i \in 1 .. Len(trace) : \A r \in trace[i].to :
      /\ sockets[r].userId = sockets[resp.socket].userId
      /\ sockets[r].role # sockets[resp.socket].role \/ r = resp.socket

----------------------------------------------------------------------------
(* kingpin adds, renames and deletes machines and hands out invites; guests  *)
(* connect with them.  The clock stands still.                               *)

InviteNext ==
  \/ Login("ip1", "kingpin")
  \/ \E t \in TokenInputs : AddMachine(t, "kingpin", NullStr)
  \/ \E t \in TokenInputs, m \in MachineIdInputs : DeleteMachine(t, "kingpin", m)
  \/ \E t \in TokenInputs, m \in MachineIdInputs : RenameMachine(t, "kingpin", m, "Den")
  \/ \E t \in TokenInputs, m \in MachineIdInputs : CreateInvite(t, "kingpin", m)
  \/ \E k \in KeyInputs : Handshake(AgentAuth(k))
  \/ \E i \in InviteInputs : Handshake(InviteAuth(i))
  \/ \E s \in SockIds : ViewerDisconnect(s)

SpecInvite == Init /\ [][InviteNext]_vars

(* kingpin hands out invites for the seeded machine; guests read them and    *)
(* connect with them while the days pass.                                    *)

ExpiryNext ==
  \/ Login("ip1", "kingpin")
  \/ \E t \in TokenInputs, m \in MachineIdInputs : CreateInvite(t, "kingpin", m)
  \/ \E i \in InviteInputs : InviteInfo(i)
  \/ \E i \in InviteInputs : Handshake(InviteAuth(i))
  \/ Tick

SpecExpiry == Init /\ [][ExpiryNext]_vars

\* C7: a viewer socket admitted with an invite issued for (user U, machine M) is
\* attached only to the viewer group of M's agent key, never to the group of another
\* machine of U, whatever machine operations happened since the invite was created.
C7_InviteScope ==
  \A s \in DOMAIN sockets :
    (resp = Handled(s, "connected") /\ sockets[s].isInvited)
    => \A K \in Keys :
         viewerRoom(K) \in rooms[s]
         => \E i \in 1 .. Len(machines[sockets[s].userId]) :
              /\ machines[sockets[s].userId][i].id = sockets[s].machineId
              /\ machines[sockets[s].userId][i].agentKey = K

\* C10: a stored invite is accepted by GET /api/invite-info and by the handshake at
\* every instant up to its expiresAt; a use after expiresAt is rejected with 'Invalid
\* or expired invite link' and removes the invite from the invite store.
C10_AbsoluteExpiry ==
  [][\A i \in DOMAIN invites :
       /\ InviteInfo(i)
          => IF now <= invites[i].expiresAt THEN resp'.status = 200
             ELSE /\ resp' = Reply(404, "Invalid or expired invite link")
                  /\ i \notin DOMAIN invites'
       /\ Handshake(InviteAuth(i))
          => IF now <= invites[i].expiresAt THEN resp'.body = "connected"
             ELSE /\ resp' = Refused("Invalid or expired invite link")
                  /\ i \notin DOMAIN invites'
    ]_vars

----------------------------------------------------------------------------
(* Both users log in and every route that names a user is called for        *)
(* kingpin with every bearer token, while the agent of the seeded machine    *)
(* comes and goes.  The clock stands still.                                  *)

SeedId == SeedMachines["kingpin"][1].id

\* the routes whose first step is the bearer check
BearerRoute(t, u) ==
  \/ \E r \in ReadRoutes : ReadRoute(r, t, u)
  \/ AddMachine(t, u, NullStr)
  \/ DeleteMachine(t, u, SeedId)
  \/ RenameMachine(t, u, SeedId, "Den")
  \/ SetMac(t, u, SeedId, "11:22:33:44:55:66", NullStr)
  \/ CreateInvite(t, u, SeedId)
  \/ \E i \in InviteInputs : RevokeInvite(t, u, i)

\* the route behind wakeLimiter
WakeRoute(t, u) == Wake("ip1", t, u, SeedId, FALSE)

UserIdRoute(t, u) == BearerRoute(t, u) \/ WakeRoute(t, u)

HttpNext ==
  \/ \E p \in Users : Login("ip1", p)
  \/ \E t \in TokenInputs : UserIdRoute(t, "kingpin")
  \/ Handshake(AgentAuth(SeedMachines["kingpin"][1].agentKey))
  \/ \E s \in SockIds : AgentDisconnect(s)

SpecHttp == Init /\ [][HttpNext]_vars

\* the token names a stored session that has been active within the TTL
Stored(t) == t \in DOMAIN sessions /\ now - sessions[t].lastActive <= SESSION_TTL

\* the step changes no store and sends no Wake-on-LAN packet
Untouched ==
  /\ UNCHANGED <<machines, invites, agents>>
  /\ \A i \in 1 .. Len(trace') : trace'[i].op # "wol"

\* the step answers 401 to an invalid token and 403 to another user's session
Rejects(t, u) ==
  /\ ~Stored(t) => resp'.status = 401 /\ Untouched
  /\ (Stored(t) /\ sessions[t].userId # u) => resp'.status = 403 /\ Untouched

\* C8 as stated: every route with :userId answers 401 when the bearer token is not a
\* valid session and 403 when the session belongs to another user, and in both cases
\* leaves the user store, the invite store and the agent registry unchanged and sends
\* no Wake-on-LAN packet.
C8_AuthBoundary ==
  [][\A t \in TokenInputs : UserIdRoute(t, "kingpin") => Rejects(t, "kingpin")]_vars

\* C8 amended: the same, except that the wake route answers 429 without looking at the
\* token once its source has made WAKE_MAX wake requests in the window; that answer
\* too changes no store and sends no packet.
C8_AuthAfterLimiter ==
  [][\A t \in TokenInputs :
       /\ BearerRoute(t, "kingpin") => Rejects(t, "kingpin")
       /\ WakeRoute(t, "kingpin")
          => IF wakeHits["ip1"] >= WAKE_MAX
             THEN resp'.status = 429 /\ Untouched
             ELSE Rejects(t, "kingpin")
    ]_vars

\* another user's session was refused while the seeded machine had a MAC address, was
\* offline, and an invite was stored
C8_Witness ==
  /\ resp = Reply(403, "Forbidden")
  /\ \E i \in 1 .. Len(machines["kingpin"]) : machines["kingpin"][i].macAddress # NullStr
  /\ agents = Empty
  /\ invites # Empty
  /\ wakeHits["ip1"] > 0

----------------------------------------------------------------------------
(* kingpin logs in and hands out invites; sockets present combinations of    *)
(* role, agent key, invite token, bearer token and machine id; time passes   *)
(* in steps that outlast both a session and an invite.                       *)

AuthInputs ==
  {Auth("agent", k, Null, Null, Null) : k \in KeyInputs}
  \cup {Auth("agent", k, 1, 1, Null) : k \in {Null, MaxKeys}}
  \cup {Auth(role, Null, Null, t, Null) : role \in Roles \ {"agent"}, t \in TokenInputs}
  \cup {Auth("viewer", Null, i, t, Null) : i \in InviteInputs, t \in {Null, 1}}
  \cup {Auth("dashboard", Null, 1, Null, Null)}
  \cup {Auth("viewer", SeedMachines["kingpin"][1].agentKey, Null, t, SeedId) :
          t \in {Null, 1}}

HandshakeNext ==
  \/ Login("ip1", "kingpin")
  \/ \E t \in TokenInputs : CreateInvite(t, "kingpin", SeedId)
  \/ \E t \in TokenInputs : DeleteMachine(t, "kingpin", SeedId)
  \/ \E auth \in AuthInputs : Handshake(auth)
  \/ Pass(INVITE_TTL + 1)

SpecHandshake == Init /\ [][HandshakeNext]_vars

StoredKeys == UNION {KeysOf(u) : u \in Users}

\* the error the handshake is owed, or "resolved"
Owed(auth) ==
  IF auth.role = "agent"
  THEN IF auth.agentKey = Null THEN "Agent key required"
       ELSE IF auth.agentKey \notin StoredKeys THEN "Invalid agent key"
       ELSE "resolved"
  ELSE IF auth.inviteToken # Null
  THEN IF auth.inviteToken \in DOMAIN invites /\ now <= invites[auth.inviteToken].expiresAt
       THEN "resolved" ELSE "Invalid or expired invite link"
  ELSE IF Stored(auth.token) THEN "resolved" ELSE "Authentication required"

\* C9: a handshake connects a socket only if it resolved (role agent with the key of a
\* stored machine, or a stored unexpired invite, or a valid session); an unresolved
\* handshake is refused with its own error and changes neither the agent registry nor
\* any group nor the connected sockets; a socket has the agent role only if the
\* handshake named role agent with a stored agent key.
C9_HandshakeResolution ==
  [][\A auth \in AuthInputs :
       Handshake(auth)
       => IF Owed(auth) = "resolved"
          THEN \E s \in DOMAIN sockets' \ DOMAIN sockets :
                 /\ resp' = Handled(s, "connected")
                 /\ sockets'[s].role = "agent"
                    <=> (auth.role = "agent" /\ auth.agentKey \in StoredKeys)
                 /\ sockets'[s].role = "agent" => sockets'[s].agentKey = auth.agentKey
          ELSE /\ resp' = [status |-> 0, body |-> Owed(auth), socket |-> Null]
               /\ trace' = << >>
               /\ UNCHANGED <<agents, rooms, sockets>>
    ]_vars

\* an expired invite was refused while an agent and a viewer were connected
C9_Witness ==
  /\ resp.body = "Invalid or expired invite link"
  /\ \E i \in DOMAIN invites : now > invites[i].expiresAt
  /\ \E a, v \in DOMAIN sockets : sockets[a].role = "agent" /\ sockets[v].role = "viewer"

----------------------------------------------------------------------------
(* sessions: the users log in and out, their tokens are checked and swept    *)
(* while the days pass.                                                      *)

SessionNext ==
  \/ \E p \in PasswordInputs : Login("ip1", p)
  \/ \E t \in TokenInputs : SessionCheck(t)
  \/ \E t \in TokenInputs : Logout(t)
  \/ Tick
  \/ Sweep

SpecSession == Init /\ [][SessionNext]_vars

\* the session has been inactive for more than SESSION_TTL
Inactive(t) == now - sessions[t].lastActive > SESSION_TTL

\* C11: a session check fails and deletes the session when more than SESSION_TTL has
\* passed since its lastActive, and otherwise succeeds and sets lastActive to now,
\* whatever the creation time; the sweep removes exactly the sessions inactive for
\* more than SESSION_TTL and leaves the others as they are.
C11_InactivityTTL ==
  [][/\ \A t \in DOMAIN sessions :
          SessionCheck(t)
            => IF Inactive(t)
               THEN resp'.status = 401 /\ sessions' = Drop(sessions, t)
               ELSE /\ resp'.status = 200
                    /\ sessions' = [sessions EXCEPT ![t].lastActive = now]
     /\ Sweep => /\ DOMAIN sessions' = {t \in DOMAIN sessions : ~Inactive(t)}
                 /\ \A t \in DOMAIN sessions' : sessions'[t] = sessions[t]
    ]_vars

\* a session older than SESSION_TTL has just been validated and refreshed
C11_Witness ==
  /\ resp = Reply(200, "valid")
  /\ \E t \in DOMAIN sessions :
       /\ sessions[t].lastActive = now
       /\ now - sessions[t].created > SESSION_TTL

----------------------------------------------------------------------------
(* the user store: kingpin adds, removes and renames machines; a save may fail *)
(* or the process may be killed in it, and is then started again.              *)

MaxText == 7

\* where a write may stop
SaveStops == -1 .. MaxText

StoreNext ==
  \/ Login("ip1", "kingpin")
  \/ \E t \in TokenInputs, n \in Names \cup {NullStr} : AddMachine(t, "kingpin", n)
  \/ \E t \in TokenInputs, m \in MachineIdInputs : DeleteMachine(t, "kingpin", m)
  \/ \E t \in TokenInputs, m \in MachineIdInputs, n \in Names \cup {NullStr} :
       RenameMachine(t, "kingpin", m, n)
  \/ \E t \in TokenInputs : ReadRoute("machines", t, "kingpin")
  \/ \E op \in MutationOps, t \in TokenInputs, m \in MachineIdInputs, n \in Names, k \in SaveStops :
       SaveFails(op, t, "kingpin", m, n, k)
  \/ \E op \in MutationOps, t \in TokenInputs, m \in MachineIdInputs, n \in Names, k \in SaveStops :
       Killed(op, t, "kingpin", m, n, k)
  \/ Boot

SpecStore == Init /\ [][StoreNext]_vars

\* C12: when the process is killed at any point of the write of a user-store
\* mutation, the file holds the complete previous document or the complete new one.
C12_CrashSafe ==
  [][\A op \in MutationOps, t \in TokenInputs, m \in MachineIdInputs, n \in Names, k \in SaveStops :
       Killed(op, t, "kingpin", m, n, k)
         => \/ disk' = disk
            \/ disk' = Stringify(Mutated(op, "kingpin", m, n))
    ]_vars

\* C12: the document a start of the process finds on disk is never a partial one.
C12_BootReadsDocument == [][Boot => ParseOk(disk)]_vars

\* C13: a failed rewrite of the user document ends the process: it never goes on
\* serving with a user store in memory that differs from the document on disk.
C13_WriteFailureFatal == up => disk = Stringify(machines)

----------------------------------------------------------------------------
(* mouse input: kingpin's viewers send mouse events of every kind, well-formed *)
(* and malformed, while the agents of kingpin and tez come and go.             *)

MouseNext ==
  \/ Login("ip1", "kingpin")
  \/ \E k \in {1, 2} : Handshake(AgentAuth(k))
  \/ \E t \in 1 .. MaxTokens : Handshake(SessionAuth(t, "viewer", Null))
  \/ \E s \in SockIds : AgentDisconnect(s)
  \/ \E s \in SockIds : ViewerDisconnect(s)
  \/ \E s \in SockIds, ev \in MouseEvents, d \in MousePayloads : ViewerMouse(s, ev, d)

SpecMouse == Init /\ [][MouseNext]_vars

\* v is not a finite number in [-10, 100000]
BadCoord(v) == ~(\/ v.t = "number" /\ v.n >= -10 /\ v.n <= 100000
                 \/ v.t = "fraction" /\ v.n >= -10 /\ v.n < 100000)

\* C14: a mouse event whose payload is null or has an x or y that is not a finite
\* number in [-10, 100000] produces no event to any agent and none to the viewer,
\* is handled without error, and leaves the viewer connected and all relay state
\* unchanged.
C14_MouseValidation ==
  [][\A s \in SockIds, ev \in MouseEvents, d \in MousePayloads :
       (ViewerMouse(s, ev, d) /\ (d = NullRec \/ BadCoord(d.x) \/ BadCoord(d.y)))
         => /\ trace' = << >>
            /\ resp' = Handled(s, "event")
            /\ s \in DOMAIN sockets'
            /\ UNCHANGED <<machines, sessions, invites, agents, sockets, rooms, up, disk>>
    ]_vars

\* a viewer whose agent is connected has sent an event and nothing was emitted
C14_Witness ==
  \E s \in DOMAIN sockets :
    /\ sockets[s].role = "viewer"
    /\ resp = Handled(s, "event")
    /\ AgentOf(s) # NullRec
    /\ AgentOf(s).connected
    /\ trace = << >>

----------------------------------------------------------------------------
(* input relay: kingpin's viewers send every event of the protocol, with     *)
(* payloads that pass and payloads that fail validation, while the agents of *)
(* kingpin and tez come and go.                                              *)

Pings == {[t |-> Num(1)], [t |-> Num(2)], NullRec}

InputNext ==
  \/ Login("ip1", "kingpin")
  \/ \E k \in {1, 2} : Handshake(AgentAuth(k))
  \/ \E t \in 1 .. MaxTokens : Handshake(SessionAuth(t, "viewer", Null))
  \/ \E s \in SockIds : AgentDisconnect(s)
  \/ \E s \in SockIds : ViewerDisconnect(s)
  \/ \E s \in SockIds, e \in EventInputs : ViewerEvent(s, e[1], e[2])
  \/ \E s \in SockIds, d \in Pings : ViewerLatencyPing(s, d)

SpecInput == Init /\ [][InputNext]_vars

\* the payload d of event ev passes the validation of the event
Passes(ev, d) ==
  CASE ev \in MouseEvents -> validMouse(d) /\ (Truthy(d.button) => validButton(d.button))
    [] ev = "mouse-scroll" -> validScroll(d)
    [] ev = "key-press" -> validKey(d) /\ (Truthy(d.modifiers) => d.modifiers.t = "array")
    [] ev = "key-type" -> d # NullRec /\ d.text.t = "string" /\ Len(d.text.s) <= 500
    [] ev = "update-quality" -> /\ d # NullRec
                                /\ \/ d.quality = NaN
                                   \/ d.quality.t = "number" /\ d.quality.n \in 10 .. 100
                                   \/ d.quality.t = "fraction" /\ d.quality.n \in 10 .. 99
    [] ev = "update-fps" -> /\ d # NullRec
                            /\ \/ d.fps = NaN
                               \/ d.fps.t = "number" /\ d.fps.n \in 1 .. 60
                               \/ d.fps.t = "fraction" /\ d.fps.n \in 1 .. 59
    [] OTHER -> TRUE

\* the agent sockets registered for the agent key of viewer s
RegisteredFor(s) ==
  {agents[k].socket : k \in {x \in DOMAIN agents : x = sockets[s].agentKey /\ agents[x].connected}}

\* C15: a viewer event that passes validation is emitted exactly once, under the same
\* name and with the payload as it came, to the agent registered for the viewer's
\* agent key if there is one, and to no other socket.
C15_LosslessRelay ==
  [][\A s \in SockIds, e \in EventInputs :
       (Passes(e[1], e[2]) /\ ViewerEvent(s, e[1], e[2]))
         => trace' = IF RegisteredFor(s) = {} THEN << >>
                     ELSE << Effect("emit", RegisteredFor(s), e[1], e[2]) >>
    ]_vars

\* an event other than a mouse event has just reached the agent of the viewer's key
\* while another agent is connected too
C15_Witness ==
  \E s \in DOMAIN sockets :
    /\ sockets[s].role = "viewer"
    /\ resp = Handled(s, "event")
    /\ Cardinality(DOMAIN agents) = 2
    /\ Len(trace) = 1
    /\ trace[1].op = "emit"
    /\ trace[1].ev = "key-type"
    /\ trace[1].to = {AgentOf(s).socket}

\* C18: for every latency-ping of a viewer the relay emits exactly one latency-pong
\* with the identical payload, to that viewer socket only, and nothing to any agent,
\* whether or not an agent is connected.
C18_LatencyEcho ==
  [][\A s \in SockIds, d \in Pings :
       ViewerLatencyPing(s, d) => trace' = << Effect("emit", {s}, "latency-pong", d) >>
    ]_vars

\* a viewer whose agent is connected has been answered its ping
C18_Witness ==
  \E s \in DOMAIN sockets :
    /\ sockets[s].role = "viewer"
    /\ AgentOf(s) # NullRec
    /\ resp = Handled(s, "event")
    /\ trace = << Effect("emit", {s}, "latency-pong", [t |-> Num(2)]) >>

----------------------------------------------------------------------------
(* presence of the agents, on the behaviours of SpecAgent *)

\* e is one of the effects tr
In(tr, e) == \E i \in 1 .. Len(tr) : tr[i] = e

\* tr tells the user group and the viewer group of the agent socket sock that its
\* machine is connected (c = TRUE) or not (c = FALSE)
Announced(tr, rm, sock, c) ==
  /\ In(tr, Effect("emit", Members(rm, userRoom(sock.userId)), "machine-status",
                   [machineId |-> sock.machineId, connected |-> c]))
  /\ In(tr, Effect("emit", Members(rm, viewerRoom(sock.agentKey)), "agent-status",
                   [connected |-> c]))

\* C19: every registration of an agent broadcasts machine-status {machineId,
\* connected:true} to the owner's user group and agent-status {connected:true} to the
\* viewer group of its key; every exit of a registered agent, by transport loss or by
\* eviction, removes its registry entry and broadcasts machine-status {machineId,
\* connected:false} to the user group and agent-status {connected:false} to the
\* viewer group.
C19_Presence ==
  [][/\ \A k \in KeyInputs :
          (Handshake(AgentAuth(k)) /\ resp'.body = "connected")
            => LET s == resp'.socket
               IN /\ agents'[k].socket = s
                  /\ Announced(trace', rooms', sockets'[s], TRUE)
                  /\ k \in DOMAIN agents
                       => /\ agents[k].socket \notin DOMAIN sockets'
                          /\ In(trace', Effect("agents.delete", {}, "registry",
                                               [key |-> k, socket |-> Null]))
                          /\ Announced(trace', rooms', sockets[agents[k].socket], FALSE)
     /\ \A s \in DOMAIN sockets :
          (sockets[s].role = "agent" /\ AgentDisconnect(s))
            => /\ sockets[s].agentKey \notin DOMAIN agents'
               /\ Announced(trace', rooms', sockets[s], FALSE)
    ]_vars

\* an agent has been lost while a dashboard and a viewer of its machine were connected
C19_Witness ==
  /\ resp.body = "disconnect"
  /\ \E i, j \in 1 .. Len(trace) :
       /\ trace[i].ev = "machine-status"
       /\ ~trace[i].data.connected
       /\ \E d \in trace[i].to : d \in DOMAIN sockets /\ sockets[d].role = "dashboard"
       /\ trace[j].ev = "agent-status"
       /\ ~trace[j].data.connected
       /\ trace[j].to # {}

----------------------------------------------------------------------------
(* attach: agents of both users register and report their screens, kingpin adds *)
(* a machine, and kingpin's viewers attach to machines with and without agent.   *)

AttachNext ==
  \/ Login("ip1", "kingpin")
  \/ \E t \in 1 .. MaxTokens : AddMachine(t, "kingpin", NullStr)
  \/ \E k \in KeyInputs : Handshake(AgentAuth(k))
  \/ \E s \in SockIds, info \in ScreenInfos : AgentScreenInfo(s, info)
  \/ \E t \in 1 .. MaxTokens, m \in MachineIdInputs : Handshake(SessionAuth(t, "viewer", m))
  \/ \E s \in SockIds : AgentDisconnect(s)
  \/ \E s \in SockIds : ViewerDisconnect(s)

SpecAttach == Init /\ [][AttachNext]_vars

\* C20: a viewer that attaches while an agent is registered for its key is sent
\* agent-status {connected:true} and then the cached screen-info if there is one, and
\* the agent is sent start-streaming; with no agent registered the viewer is sent only
\* agent-status {connected:false} and no agent is sent anything.
C20_AttachSequence ==
  \A s \in DOMAIN sockets :
    (resp = Handled(s, "connected") /\ sockets[s].role = "viewer")
      => LET K == sockets[s].agentKey
             ToViewer(e) == e.to = {s}
             ToOthers(e) == e.to # {s}
         IN IF K # Null /\ K \in DOMAIN agents
            THEN /\ SelectSeq(trace, ToViewer)
                      = << Effect("emit", {s}, "agent-status", [connected |-> TRUE]) >>
                        \o (IF agents[K].screenInfo = NullStr THEN << >>
                            ELSE << Effect("emit", {s}, "screen-info",
                                           [info |-> agents[K].screenInfo]) >>)
                 /\ SelectSeq(trace, ToOthers)
                      = << Effect("emit", {agents[K].socket}, "start-streaming", NoData) >>
            ELSE trace = << Effect("emit", {s}, "agent-status", [connected |-> FALSE]) >>

\* a viewer has attached to an agent that had reported its screen
C20_Witness ==
  \E s \in DOMAIN sockets :
    /\ resp = Handled(s, "connected")
    /\ sockets[s].role = "viewer"
    /\ sockets[s].agentKey \in DOMAIN agents
    /\ agents[sockets[s].agentKey].screenInfo # NullStr
    /\ Len(trace) = 3

\* a viewer has attached to a machine whose agent is not registered while another
\* agent is
C20_WitnessNoAgent ==
  \E s \in DOMAIN sockets :
    /\ resp = Handled(s, "connected")
    /\ sockets[s].role = "viewer"
    /\ sockets[s].agentKey \notin DOMAIN agents
    /\ agents # Empty

----------------------------------------------------------------------------
(* the wire: clients listen, connect as kingpin's agent and viewers, and the    *)
(* viewers send numbered mouse events, some of them malformed.                 *)

\* a client that is not connected yet starts to record what it is sent
Listen(s) ==
  /\ s \in SockIds \ (DOMAIN wire \cup DOMAIN sockets)
  /\ wire' = Put(wire, s, [sent |-> 0, log |-> << >>])
  /\ UNCHANGED <<now, machines, nextKey, sessions, nextToken, invites, nextInvite,
                 agents, sockets, rooms, loginHits, wakeHits, up, disk, proc, trace,
                 resp>>

\* the payload of the next event of viewer s: x is its number, y the viewer
Stamp(s) == Mouse(Num(wire[s].sent + 1), Num(s), Undef)

WireNext ==
  \/ Login("ip1", "kingpin")
  \/ \E s \in SockIds : Listen(s)
  \/ Handshake(AgentAuth(1))
  \/ Handshake(SessionAuth(1, "viewer", Null))
  \/ \E s \in DOMAIN wire, bad \in BOOLEAN :
       /\ wire[s].sent < MaxSent
       /\ ViewerMouse(s, "mouse-move", IF bad THEN BadMouse ELSE Stamp(s))
  \/ \E s \in SockIds : AgentDisconnect(s)

SpecWire == Init /\ [][WireNext]_vars

\* the numbers of the mouse events of viewer v in what client a has received
StampsFrom(a, v) ==
  LET FromV(p) == p.ev \in MouseEvents /\ p.data.y = Num(v)
      got      == SelectSeq(wire[a].log, FromV)
  IN [i \in 1 .. Len(got) |-> got[i].data.x.n]

\* C16: the events of one viewer that are forwarded to an agent connection arrive
\* there in the order the viewer submitted them: their numbers only grow, and none is
\* ahead of what the viewer has sent, whatever was dropped in between.
C16_SubmissionOrder ==
  \A a \in DOMAIN wire, v \in DOMAIN wire :
    LET q == StampsFrom(a, v)
    IN /\ \A i, j \in 1 .. Len(q) : i < j => q[i] < q[j]
       /\ \A i \in 1 .. Len(q) : q[i] <= wire[v].sent

\* an agent has received the first and the third event of a viewer, whose second
\* event failed validation
C16_Witness ==
  \E a \in DOMAIN wire, v \in DOMAIN wire : StampsFrom(a, v) = <<1, 3>>

----------------------------------------------------------------------------
(* frames: clients listen, connect as kingpin's agent and viewers; the agent  *)
(* reports its screen, lists its displays and sends frames, and is replaced.  *)

\* a client that listens sends MaxSent events at most
MaySend(s) == s \in DOMAIN wire => wire[s].sent < MaxSent

FramesNext ==
  \/ Login("ip1", "kingpin")
  \/ \E s \in SockIds : Listen(s)
  \/ Handshake(AgentAuth(1))
  \/ Handshake(SessionAuth(1, "viewer", Null))
  \/ \E s \in SockIds : MaySend(s) /\ AgentScreenInfo(s, "info1")
  \/ \E s \in SockIds, ev \in {"frame", "displays-list"} : MaySend(s) /\ AgentRelay(s, ev)

SpecFrames == Init /\ [][FramesNext]_vars

IsFrame(p)    == p.ev = "frame"
IsReliable(p) == p.ev \in {"screen-info", "displays-list", "clipboard-content", "agent-status"}

\* the packets of the emits tr
Packets(tr) == [i \in 1 .. Len(tr) |-> Packet(tr[i])]

\* C17: what a listening client has received is never reordered: a handler only adds
\* at the end; it adds every reliable event (screen-info, displays-list,
\* clipboard-content, agent-status) the handler emitted to the client, in emission
\* order; and a frame is added in the step that emitted it or never.
C17_ReliableAndVolatile ==
  [][DOMAIN wire' = DOMAIN wire =>
       \A v \in DOMAIN wire :
         LET old   == wire[v].log
             new   == wire'[v].log
             due   == Packets(Due(trace', v))
             added == SubSeq(new, Len(old) + 1, Len(new))
         IN /\ Len(new) >= Len(old)
            /\ SubSeq(new, 1, Len(old)) = old
            /\ SelectSeq(added, IsReliable) = SelectSeq(due, IsReliable)
            /\ Len(SelectSeq(added, IsFrame)) <= Len(SelectSeq(due, IsFrame))
    ]_vars

\* a frame emitted to two viewers has reached one of them and not the other, which had
\* received a reliable event before
C17_Witness ==
  /\ resp.body = "event"
  /\ Len(trace) = 1
  /\ trace[1].ev = "frame"
  /\ \E v, w \in DOMAIN wire \cap trace[1].to :
       /\ wire[v].log # << >>
       /\ wire[v].log[Len(wire[v].log)].ev = "frame"
       /\ wire[w].log # << >>
       /\ SelectSeq(wire[w].log, IsFrame) = << >>

----------------------------------------------------------------------------
(* dashboards, on the behaviours of SpecAgent *)

\* C21: a dashboard socket joins only the user group of its user and is sent on
\* attach exactly one machine-status per machine the user has, with connected equal
\* to whether an agent is registered for the key of that machine.
C21_DashboardAttach ==
  \A s \in DOMAIN sockets :
    sockets[s].role = "dashboard"
      => LET list == machines[sockets[s].userId]
         IN /\ rooms[s] = {userRoom(sockets[s].userId)}
            /\ resp = Handled(s, "connected") =>
               trace = [i \in 1 .. Len(list) |->
                          Effect("emit", {s}, "machine-status",
                                 [machineId |-> list[i].id,
                                  connected |-> list[i].agentKey \in DOMAIN agents])]

\* a dashboard has attached for a user with one machine online and one offline
C21_Witness ==
  \E s \in DOMAIN sockets :
    /\ resp = Handled(s, "connected")
    /\ sockets[s].role = "dashboard"
    /\ Len(trace) = 2
    /\ \E i, j \in 1 .. 2 : trace[i].data.connected /\ ~trace[j].data.connected

----------------------------------------------------------------------------
(* several viewers of one machine, on the behaviours of SpecFrames *)

\* the viewer sockets attached to the key of agent socket a
ViewersOf(a) ==
  {v \in DOMAIN sockets : sockets[v].role = "viewer" /\ sockets[v].agentKey = sockets[a].agentKey}

\* the emit e has reached every listening client among V as the last thing it received
ReachedAll(V, e) ==
  \A v \in V \cap DOMAIN wire :
    /\ wire'[v].log # << >>
    /\ wire'[v].log[Len(wire'[v].log)] = Packet(e)

----------------------------------------------------------------------------
(* login lockout, on the behaviours of SpecSession *)

\* C23: the fifth login request with a wrong password from one source within the
\* window is answered 429, and a request answered 429 reaches no password check and
\* creates no session.
C23_Lockout ==
  [][\A p \in PasswordInputs :
       Login("ip1", p)
         => /\ (p = "wrong" /\ loginHits["ip1"] = MAX_LOGIN_ATTEMPTS - 1) => resp'.status = 429
            /\ resp'.status = 429 => resp'.body = "Too many login attempts"
                                     /\ sessions' = sessions
                                     /\ nextToken' = nextToken
    ]_vars

\* C23 as the limiter counts: the first MAX_LOGIN_ATTEMPTS requests of a window reach
\* the password check; every later one is answered 429 and creates no session.
C23_LockoutAfterMax ==
  [][\A p \in PasswordInputs :
       Login("ip1", p)
         => IF loginHits["ip1"] >= MAX_LOGIN_ATTEMPTS
            THEN /\ resp' = Reply(429, "Too many login attempts")
                 /\ sessions' = sessions
                 /\ nextToken' = nextToken
            ELSE resp'.status \in {200, 400, 401}
    ]_vars

\* a sixth login request of a window has been refused, with no session made so far
C23_Witness ==
  /\ resp = Reply(429, "Too many login attempts")
  /\ loginHits["ip1"] = MAX_LOGIN_ATTEMPTS + 1
  /\ sessions = Empty

----------------------------------------------------------------------------
(* Wake-on-LAN, on the behaviours of SpecHttp *)

\* kingpin's seed machine has a MAC address and its agent is registered
OnlineWithMac ==
  LET machine == getMachine("kingpin", SeedId)
  IN /\ machine # NullRec
     /\ machine.macAddress # NullStr
     /\ machine.agentKey \in DOMAIN agents

----------------------------------------------------------------------------
(* server.js : shutdown *)

FORCE_EXIT_S == 5
Signals == {"SIGTERM", "SIGINT"}

\* server.close() has been called and no connection is left: the 'close' event of the
\* server is due on the next tick, before any timer, signal or request
Drained == proc.closing /\ DOMAIN sockets = {}

\* process.exit(code): all that lived in the memory of the process is gone
Exit(code) ==
  /\ up' = FALSE
  /\ proc' = [listening |-> FALSE, closing |-> FALSE, timers |-> << >>, exit |-> << code >>]
  /\ machines' = [u \in Users |-> << >>]
  /\ sessions' = Empty
  /\ invites' = Empty
  /\ agents' = Empty
  /\ sockets' = Empty
  /\ rooms' = Empty
  /\ loginHits' = [s \in Sources |-> 0]
  /\ wakeHits' = [s \in Sources |-> 0]
  /\ trace' = << >>
  /\ resp' = Reply(code, "exit")
  /\ UNCHANGED <<now, nextKey, nextToken, nextInvite, disk>>
  /\ Wired

\* (mutant) shutdown that sets no timer
ShutdownNoTimer(signal) ==
  /\ up
  /\ ~Drained
  /\ Len(proc.timers) < MaxSignals
  /\ trace' = << Effect("emit", DOMAIN sockets, "server-shutdown",
                        [message |-> "Server restarting"]),
                 Effect("close", {}, "server", NoData) >>
  /\ proc' = [proc EXCEPT !.listening = FALSE, !.closing = TRUE]
  /\ resp' = Reply(0, signal)
  /\ UNCHANGED <<now, machines, nextKey, sessions, nextToken, invites, nextInvite,
                 agents, sockets, rooms, loginHits, wakeHits, up, disk>>
  /\ Wired

\* shutdown(signal): io.emit, server.close(callback), setTimeout(force exit, 5000)
Shutdown(signal) ==
  /\ up
  /\ ~Drained
  /\ Len(proc.timers) < MaxSignals
  /\ trace' = << Effect("emit", DOMAIN sockets, "server-shutdown",
                        [message |-> "Server restarting"]),
                 Effect("close", {}, "server", NoData),
                 Effect("timer", {}, "exit", [seconds |-> FORCE_EXIT_S]) >>
  /\ proc' = [proc EXCEPT !.listening = FALSE, !.closing = TRUE,
                          !.timers = Append(@, FORCE_EXIT_S)]
  /\ resp' = Reply(0, signal)
  /\ UNCHANGED <<now, machines, nextKey, sessions, nextToken, invites, nextInvite,
                 agents, sockets, rooms, loginHits, wakeHits, up, disk>>
  /\ Wired

\* the callback of server.close: the server has closed
Closed ==
  /\ up
  /\ Drained
  /\ Exit(0)

\* a second passes while a force-exit timer runs
Second ==
  /\ up
  /\ ~Drained
  /\ proc.timers # << >>
  /\ \A i \in 1 .. Len(proc.timers) : proc.timers[i] > 0
  /\ proc' = [proc EXCEPT !.timers = [i \in 1 .. Len(proc.timers) |-> proc.timers[i] - 1]]
  /\ trace' = << >>
  /\ resp' = Reply(0, "second")
  /\ UNCHANGED <<now, machines, nextKey, sessions, nextToken, invites, nextInvite,
                 agents, sockets, rooms, loginHits, wakeHits, up, disk>>
  /\ Wired

\* the callback of the force-exit timer
ForceExit ==
  /\ up
  /\ ~Drained
  /\ \E i \in 1 .. Len(proc.timers) : proc.timers[i] = 0
  /\ Exit(1)

\* a new connection needs the listener; each request comes on a connection of its own
ShutdownNext ==
  \/ proc.listening /\ sessions = Empty /\ Login("ip1", "kingpin")
  \/ Listen(1)
  \/ proc.listening /\ Handshake(AgentAuth(1))
  \/ proc.listening /\ Handshake(SessionAuth(1, "viewer", Null))
  \/ \E s \in SockIds : ~Drained /\ AgentDisconnect(s)
  \/ \E s \in SockIds : ~Drained /\ ViewerDisconnect(s)
  \/ \E signal \in Signals : Shutdown(signal)
  \/ Closed
  \/ Second
  \/ ForceExit

SpecShutdown == Init /\ [][ShutdownNext]_vars

\* the event loop runs the callbacks that are due, and the clock does not stop
SpecShutdownLive ==
  /\ SpecShutdown
  /\ WF_vars(Closed)
  /\ WF_vars(Second)
  /\ WF_vars(ForceExit)

ShutdownNotice == [ev |-> "server-shutdown", data |-> [message |-> "Server restarting"]]

\* C25: on SIGTERM or SIGINT server-shutdown is emitted to every connected socket, and
\* reaches it, before the listener is closed, after which no connection is added; the
\* process exits only after a signal, with code 0 when the server has closed (no
\* connection is left) or with code 1 when a force-exit timer has run its 5 seconds
\* while connections remain; and once a signal has arrived the process always exits.
C25_GracefulShutdown ==
  /\ [][\A signal \in Signals :
          Shutdown(signal)
            => /\ trace'[1] = Effect("emit", DOMAIN sockets, ShutdownNotice.ev,
                                     ShutdownNotice.data)
               /\ trace'[2].op = "close"
               /\ ~proc'.listening
               /\ \A s \in DOMAIN wire \cap DOMAIN sockets :
                    /\ Len(wire'[s].log) = Len(wire[s].log) + 1
                    /\ wire'[s].log[Len(wire'[s].log)] = ShutdownNotice
       ]_vars
  /\ [][~proc.listening => DOMAIN sockets' \subseteq DOMAIN sockets]_vars
  /\ [][(up /\ ~up')
          => /\ proc.closing
             /\ \/ proc'.exit = << 0 >> /\ DOMAIN sockets = {}
                \/ /\ proc'.exit = << 1 >>
                   /\ DOMAIN sockets # {}
                   /\ \E i \in 1 .. Len(proc.timers) : proc.timers[i] = 0
       ]_vars
  /\ proc.closing ~> ~up

\* the process was told to stop while a listening client was connected, the client has
\* read the notice, and the process has exited by force
C25_Witness ==
  /\ proc.exit = << 1 >>
  /\ 1 \in DOMAIN wire
  /\ wire[1].log # << >>
  /\ wire[1].log[Len(wire[1].log)] = ShutdownNotice

\* the process was told to stop and has exited with code 0
C25_WitnessDrained == proc.exit = << 0 >>

----------------------------------------------------------------------------
(* validation of the other viewer events, on the behaviours of SpecInput *)

\* v is a finite number
Finite(v) == v.t \in {"number", "fraction"}

\* v is an integer from lo to hi
IntegerIn(v, lo, hi) == v.t = "number" /\ v.n \in lo .. hi

\* C26: a mouse-scroll is forwarded only if x and y are finite numbers in
\* [-10, 100000] and deltaX and deltaY are finite numbers; with a delta that is NaN,
\* an infinity or not a number, nothing is emitted.
C26_ScrollValidation ==
  [][\A s \in SockIds, d \in ScrollPayloads :
       (ViewerMouseScroll(s, d) /\ trace' # << >>)
         => /\ d # NullRec
            /\ ~BadCoord(d.x) /\ ~BadCoord(d.y)
            /\ Finite(d.deltaX) /\ Finite(d.deltaY)
    ]_vars

\* C27: update-quality is forwarded only if quality is an integer in [10, 100] and
\* update-fps only if fps is an integer in [1, 60]; for every other value nothing is
\* emitted.
C27_QualityFpsValidation ==
  [][/\ \A s \in SockIds, d \in QualityPayloads :
          (ViewerUpdateQuality(s, d) /\ trace' # << >>)
            => d # NullRec /\ IntegerIn(d.quality, 10, 100)
     /\ \A s \in SockIds, d \in FpsPayloads :
          (ViewerUpdateFps(s, d) /\ trace' # << >>)
            => d # NullRec /\ IntegerIn(d.fps, 1, 60)
    ]_vars

\* C28: a key-press is forwarded only if key is a string of at most 20 characters and
\* modifiers, when present, is a list of strings; a key-type only if text is a string
\* of at most 500 characters; otherwise nothing is emitted.
C28_KeyValidation ==
  [][/\ \A s \in SockIds, d \in KeyPayloads :
          (ViewerKeyPress(s, d) /\ trace' # << >>)
            => /\ d # NullRec
               /\ d.key.t = "string" /\ Len(d.key.s) <= 20
               /\ d.modifiers \in {Undef, Arr}
     /\ \A s \in SockIds, d \in TextPayloads :
          (ViewerKeyType(s, d) /\ trace' # << >>)
            => d # NullRec /\ d.text.t = "string" /\ Len(d.text.s) <= 500
    ]_vars

----------------------------------------------------------------------------
(* The owner adds and deletes machines while agents and viewers of the owner  *)
(* connect, with and without a machine id, and exchange events.               *)

\* the machine ids a viewer may name: none, the seeded one, the ones stored now
ViewerMachineIds == {Null, SeedId} \cup StoredMachineIds

DefaultNext ==
  \/ sessions = Empty /\ Login("ip1", "kingpin")
  \/ AddMachine(1, "kingpin", NullStr)
  \/ \E m \in StoredMachineIds : DeleteMachine(1, "kingpin", m)
  \/ \E k \in {1, 3} : Handshake(AgentAuth(k))
  \/ \E m \in ViewerMachineIds : Handshake(SessionAuth(1, "viewer", m))
  \/ \E s \in SockIds : ViewerKeyType(s, [text |-> Str("hello")])
  \/ \E s \in SockIds : AgentRelay(s, "displays-list")
  \/ \E s \in SockIds : ViewerDisconnect(s)

SpecDefault == Init /\ [][DefaultNext]_vars

\* C29: a session viewer whose handshake names no machine, or none of its user,
\* gets the key of the user's first machine and joins the viewer group of that key,
\* and every event the agent of that key relays is emitted to it; when the user has no
\* machine the viewer has no key, joins only the user group, is sent agent-status
\* {connected:false} and nothing else, and none of its events is forwarded.
C29_DefaultMachine ==
  /\ [][\A m \in ViewerMachineIds :
          ( /\ Handshake(SessionAuth(1, "viewer", m))
            /\ resp'.body = "connected"
            /\ (m = Null \/ getMachine("kingpin", m) = NullRec) )
            => LET s    == resp'.socket
                   list == machines["kingpin"]
               IN IF Len(list) > 0
                  THEN /\ sockets'[s].agentKey = list[1].agentKey
                       /\ rooms'[s] = {viewerRoom(list[1].agentKey), userRoom("kingpin")}
                  ELSE /\ sockets'[s].agentKey = Null
                       /\ rooms'[s] = {userRoom("kingpin")}
                       /\ trace' = << Emit(s, "agent-status", [connected |-> FALSE]) >>
       ]_vars
  /\ [][\A a \in SockIds :
          AgentRelay(a, "displays-list")
            => \A v \in DOMAIN sockets :
                 (sockets[v].role = "viewer" /\ sockets[v].agentKey = sockets[a].agentKey)
                   => v \in trace'[1].to
       ]_vars
  /\ [][\A v \in SockIds :
          ( /\ ViewerKeyType(v, [text |-> Str("hello")])
            /\ sockets[v].agentKey = Null )
            => trace' = << >>
       ]_vars
  /\ [](\A v \in DOMAIN sockets :
          (sockets[v].role = "viewer" /\ sockets[v].agentKey = Null)
            => rooms[v] = {userRoom(sockets[v].userId)})

\* a viewer that named a machine its user no longer has was attached to the user's
\* first machine, and the agent of that machine has just relayed an event to it
C29_Witness ==
  \E v \in DOMAIN sockets :
    /\ sockets[v].role = "viewer"
    /\ sockets[v].machineId = SeedId
    /\ getMachine("kingpin", SeedId) = NullRec
    /\ Len(machines["kingpin"]) > 0
    /\ sockets[v].agentKey = machines["kingpin"][1].agentKey
    /\ Len(trace) = 1
    /\ trace[1].ev = "displays-list"
    /\ v \in trace[1].to

\* a viewer of a user without machines sent an event, which went nowhere
C29_WitnessNoMachine ==
  \E v \in DOMAIN sockets :
    /\ sockets[v].role = "viewer"
    /\ sockets[v].agentKey = Null
    /\ machines["kingpin"] = << >>
    /\ resp = Handled(v, "event")
    /\ trace = << >>

----------------------------------------------------------------------------
(* the screen-info cache, on the behaviours of SpecAttach *)

\* C30: the cached screen-info of the entry registered for a key is empty when the
\* entry is new or its socket has changed (connection, reconnection, eviction); while
\* the socket stays it changes only in a screen-info event of that very socket, to the
\* value just emitted; so it is empty or the latest screen-info of the registered
\* socket, never one of an earlier connection; and the screen-info a newly attached
\* viewer is sent is that cached value.
C30_ScreenInfoCache ==
  /\ [][\A K \in DOMAIN agents' :
          IF K \notin DOMAIN agents \/ agents'[K].socket # agents[K].socket
          THEN agents'[K].screenInfo = NullStr
          ELSE \/ agents'[K].screenInfo = agents[K].screenInfo
               \/ \E info \in ScreenInfos :
                    /\ AgentScreenInfo(agents[K].socket, info)
                    /\ agents'[K].screenInfo = info
       ]_vars
  /\ [][\A s \in SockIds, info \in ScreenInfos :
          ( /\ AgentScreenInfo(s, info)
            /\ sockets[s].agentKey \in DOMAIN agents )
            => /\ agents[sockets[s].agentKey].socket = s
               /\ agents'[sockets[s].agentKey].screenInfo = info
       ]_vars
  /\ [][\A t \in 1 .. MaxTokens, m \in MachineIdInputs :
          ( /\ Handshake(SessionAuth(t, "viewer", m))
            /\ resp'.body = "connected" )
            => \A i \in 1 .. Len(trace') :
                 trace'[i].ev = "screen-info"
                   => LET K == sockets'[resp'.socket].agentKey
                      IN /\ K \in DOMAIN agents
                         /\ agents[K].screenInfo # NullStr
                         /\ trace'[i].data = [info |-> agents[K].screenInfo]
       ]_vars

\* an agent has just evicted the agent registered for its key, viewers are watching,
\* and the cache of the key is empty
C30_Witness ==
  \E K \in DOMAIN agents :
    /\ resp = Handled(agents[K].socket, "connected")
    /\ Len(trace) > 0
    /\ trace[1].ev = "kicked"
    /\ Members(rooms, viewerRoom(K)) # {}
    /\ agents[K].screenInfo = NullStr

\* a viewer has just been shown the second screen-info of the registered agent
C30_WitnessLatest ==
  \E s \in DOMAIN sockets :
    /\ resp = Handled(s, "connected")
    /\ sockets[s].role = "viewer"
    /\ Len(trace) = 3
    /\ trace[3].data = [info |-> "info2"]

----------------------------------------------------------------------------
(* status consistency, on the behaviours of SpecAgent *)

\* the agent-status events of the handler that are addressed to socket v
AgentStatusTo(tr, v) ==
  LET ForV(e) == e.op = "emit" /\ e.ev = "agent-status" /\ v \in e.to
  IN SelectSeq(tr, ForV)

\* the machine-status events of the handler for machine id that are addressed to d
MachineStatusTo(tr, d, id) ==
  LET ForD(e) == e.op = "emit" /\ e.ev = "machine-status" /\ d \in e.to
                 /\ e.data.machineId = id
  IN SelectSeq(tr, ForD)

Last(seq) == seq[Len(seq)]

\* C31: the last agent-status a viewer was sent tells whether an agent is registered
\* for the viewer's key, and the last machine-status a dashboard was sent for a
\* machine of its user tells whether an agent is registered for the key of that
\* machine.  Step by step: a handler that sends a socket a status ends with the one
\* that is true afterwards, and a handler after which the truth differs from before,
\* or after which the socket is new, sends one.
C31_StatusConsistency ==
  [][/\ \A v \in DOMAIN sockets' :
          sockets'[v].role = "viewer"
            => LET K    == sockets'[v].agentKey
                   sent == AgentStatusTo(trace', v)
               IN /\ sent # << >> => Last(sent).data.connected = (K \in DOMAIN agents')
                  /\ (v \notin DOMAIN sockets
                      \/ (K \in DOMAIN agents') # (K \in DOMAIN agents))
                       => sent # << >>
     /\ \A d \in DOMAIN sockets' :
          sockets'[d].role = "dashboard"
            => \A i \in 1 .. Len(machines'[sockets'[d].userId]) :
                 LET m    == machines'[sockets'[d].userId][i]
                     sent == MachineStatusTo(trace', d, m.id)
                 IN /\ sent # << >>
                         => Last(sent).data.connected = (m.agentKey \in DOMAIN agents')
                    /\ (d \notin DOMAIN sockets
                        \/ (m.agentKey \in DOMAIN agents') # (m.agentKey \in DOMAIN agents))
                         => sent # << >>
    ]_vars

\* an agent has just replaced the registered agent of a machine while a viewer of the
\* machine was attached: the viewer was told offline, then online
C31_Witness ==
  \E v \in DOMAIN sockets :
    /\ sockets[v].role = "viewer"
    /\ Len(AgentStatusTo(trace, v)) = 2
    /\ Last(AgentStatusTo(trace, v)).data.connected
    /\ sockets[v].agentKey \in DOMAIN agents

\* the same with a dashboard of the owner attached
C31_WitnessDashboard ==
  \E d \in DOMAIN sockets :
    /\ sockets[d].role = "dashboard"
    /\ Len(MachineStatusTo(trace, d, SeedId)) = 2
    /\ Last(MachineStatusTo(trace, d, SeedId)).data.connected
    /\ machines[sockets[d].userId][1].agentKey \in DOMAIN agents

----------------------------------------------------------------------------
(* The store was loaded from a users.json of the single-key format: kingpin's  *)
(* key became machine 'm1', tez had neither key nor machines.  Both users add  *)
(* and remove machines while the clock stands still or advances.               *)

LegacyMachines ==
  [u \in Users |->
     IF u = "kingpin"
     THEN << [id |-> 1, name |-> "My Laptop", agentKey |-> 1,
              macAddress |-> NullStr, broadcastAddress |-> NullStr] >>
     ELSE << >>]

\* the state after init() has migrated such a file and the server listens
InitLegacy ==
  /\ now = StartTime
  /\ machines = LegacyMachines
  /\ nextKey = 2
  /\ sessions = Empty
  /\ nextToken = 1
  /\ invites = Empty
  /\ nextInvite = 1
  /\ agents = Empty
  /\ sockets = Empty
  /\ rooms = Empty
  /\ loginHits = [s \in Sources |-> 0]
  /\ wakeHits = [s \in Sources |-> 0]
  /\ up = TRUE
  /\ disk = Stringify(LegacyMachines)
  /\ proc = Listening
  /\ wire = Empty
  /\ trace = << >>
  /\ resp = Reply(0, "boot")

MachinesNext ==
  \/ \E u \in Users : Login("ip1", u)
  \/ \E t \in 1 .. MaxTokens, u \in Users : AddMachine(t, u, NullStr)
  \/ \E t \in 1 .. MaxTokens, u \in Users, m \in StoredMachineIds : DeleteMachine(t, u, m)
  \/ now = StartTime /\ Tick

SpecMachines == InitLegacy /\ [][MachinesNext]_vars

(* On the same store tez adds machines, the agents of the stored machines     *)
(* connect and leave, and tez's dashboard attaches.  The clock stands still.   *)

StatusNext ==
  \/ Login("ip1", "tez")
  \/ \E t \in 1 .. MaxTokens : AddMachine(t, "tez", NullStr)
  \/ \E k \in KeyInputs : Handshake(AgentAuth(k))
  \/ \E t \in 1 .. MaxTokens : Handshake(SessionAuth(t, "dashboard", Null))
  \/ \E s \in SockIds : AgentDisconnect(s)

SpecStatus == InitLegacy /\ [][StatusNext]_vars

\* the agent keys of all stored machines, user by user
StoredKeySeq(u) == [i \in 1 .. Len(machines[u]) |-> machines[u][i].agentKey]

\* C32: within one user the machine ids are pairwise distinct, and all agent keys are
\* pairwise distinct across users.
C32_UniqueIds ==
  /\ \A u \in Users : \A i, j \in 1 .. Len(machines[u]) :
       i # j => machines[u][i].id # machines[u][j].id
  /\ \A u, w \in Users : \A i \in 1 .. Len(machines[u]), j \in 1 .. Len(machines[w]) :
       (u # w \/ i # j) => machines[u][i].agentKey # machines[w][j].agentKey

\* the agent keys alone are pairwise distinct
KeysUnique ==
  \A u, w \in Users : \A i \in 1 .. Len(machines[u]), j \in 1 .. Len(machines[w]) :
    (u # w \/ i # j) => StoredKeySeq(u)[i] # StoredKeySeq(w)[j]

----------------------------------------------------------------------------
(* Both users sign in, hand out invites for their seeded machine and revoke   *)
(* invites, their own and the other's, while guests use the tokens; two days   *)
(* may pass, after which the sessions have expired.                           *)

RevokeNext ==
  \/ \E u \in Users : Login("ip1", u)
  \/ \E t \in 1 .. MaxTokens, u \in Users : CreateInvite(t, u, SeedId)
  \/ \E t \in TokenInputs, u \in Users, i \in InviteInputs : RevokeInvite(t, u, i)
  \/ \E i \in InviteInputs : InviteInfo(i)
  \/ \E i \in InviteInputs : Handshake(InviteAuth(i))
  \/ now = StartTime /\ Pass(SESSION_TTL + 1)

SpecRevoke == Init /\ [][RevokeNext]_vars

\* the session of token t is valid and belongs to user u
ValidFor(t, u) ==
  /\ t \in DOMAIN sessions
  /\ now - sessions[t].lastActive <= SESSION_TTL
  /\ sessions[t].userId = u

\* invite i was handed out and is no longer stored
Revoked(i) == i < nextInvite /\ i \notin DOMAIN invites

\* C33: the revoke route removes invite i exactly when the caller's session is valid
\* for the user of the path and the stored invite belongs to that user, and then
\* answers ok; with such a session and an unknown token or an invite of another user
\* it answers 404; in every other case too the invite store is unchanged; a revoked
\* invite never comes back, and every later invite-info request and handshake with
\* its token is refused.
C33_InviteRevocation ==
  /\ [][\A t \in TokenInputs, u \in Users, i \in InviteInputs :
          RevokeInvite(t, u, i)
            => IF ValidFor(t, u) /\ i \in DOMAIN invites /\ invites[i].userId = u
               THEN invites' = Drop(invites, i) /\ resp' = Reply(200, "ok")
               ELSE /\ invites' = invites
                    /\ ValidFor(t, u) => resp' = Reply(404, "Invite not found")
       ]_vars
  /\ [][\A i \in InviteInputs :
          Revoked(i)
            => /\ i \notin DOMAIN invites'
               /\ InviteInfo(i) => resp' = Reply(404, "Invalid or expired invite link")
               /\ Handshake(InviteAuth(i))
                    => /\ resp' = Refused("Invalid or expired invite link")
                       /\ sockets' = sockets
       ]_vars

\* a guest has just been refused with an invite that was revoked before it expired,
\* while the other user's invite is still stored
C33_Witness ==
  /\ resp = Refused("Invalid or expired invite link")
  /\ \E i \in InviteInputs : Revoked(i)
  /\ \E i \in DOMAIN invites : now <= invites[i].expiresAt

----------------------------------------------------------------------------
(* the order of the checks of the wake route, on the behaviours of SpecHttp *)

\* the answer the wake request of token t for kingpin's seeded machine is owed: the
\* first check that fails decides
WakeOutcome(t) ==
  LET machine == getMachine("kingpin", SeedId)
  IN IF wakeHits["ip1"] >= WAKE_MAX THEN Reply(429, "Too many wake attempts")
     ELSE IF ~Stored(t) THEN Reply(401, "Unauthorized")
     ELSE IF sessions[t].userId # "kingpin" THEN Reply(403, "Forbidden")
     ELSE IF machine = NullRec THEN Reply(404, "Machine not found")
     ELSE IF machine.macAddress = NullStr THEN Reply(400, "No MAC address")
     ELSE IF machine.agentKey \in DOMAIN agents THEN Reply(200, "alreadyOnline")
     ELSE Reply(200, "Wake-on-LAN packet sent")

\* C34: a wake request is answered by the first of the checks that fails, in the order
\* limiter (429), session (401), owner (403), machine (404), MAC address (400), agent
\* registered (alreadyOnline), and a packet is sent exactly when none fails: one
\* packet, to the MAC address of the machine.
C34_WakeGuards ==
  [][\A t \in TokenInputs :
       Wake("ip1", t, "kingpin", SeedId, FALSE)
         => /\ resp' = WakeOutcome(t)
            /\ IF WakeOutcome(t) = Reply(200, "Wake-on-LAN packet sent")
               THEN /\ Len(trace') = 1
                    /\ trace'[1].op = "wol"
                    /\ trace'[1].ev = getMachine("kingpin", SeedId).macAddress
               ELSE trace' = << >>
    ]_vars

\* a packet has been sent for the owner, whose machine is offline
C34_Witness ==
  /\ resp = Reply(200, "Wake-on-LAN packet sent")
  /\ Len(trace) = 1
  /\ trace[1].op = "wol"

\* the sixth request of the minute was refused
C34_WitnessLimited == resp = Reply(429, "Too many wake attempts")

----------------------------------------------------------------------------
(* events without a target agent, on the behaviours of SpecInput *)

\* the names of the events a viewer sends
ViewerEventNames == {e[1] : e \in EventInputs}

\* C35: a viewer event that passes validation while no agent is registered for the
\* viewer's key emits nothing, to no agent and not to the viewer, and leaves sessions,
\* registry, sockets and groups as they were, so nothing is kept of it and the viewer
\* stays connected; and no step delivers a viewer event other than the handler of that
\* very event, so an agent that connects later is sent none.
C35_NoAgentNoOp ==
  /\ [][\A s \in SockIds, e \in EventInputs :
          ( /\ Passes(e[1], e[2])
            /\ ViewerEvent(s, e[1], e[2])
            /\ sockets[s].agentKey \notin DOMAIN agents )
            => /\ trace' = << >>
               /\ UNCHANGED <<machines, sessions, invites, agents, sockets, rooms, proc>>
       ]_vars
  /\ [][\A i \in 1 .. Len(trace') :
          trace'[i].ev \in ViewerEventNames
            => \E s \in DOMAIN sockets :
                 /\ resp' = Handled(s, "event")
                 /\ sockets[s].role = "viewer"
                 /\ sockets[s].agentKey \in DOMAIN agents
                 /\ trace'[i].to = {agents[sockets[s].agentKey].socket}
                 /\ \E e \in EventInputs :
                      /\ e[1] = trace'[i].ev
                      /\ ViewerEvent(s, e[1], e[2])
       ]_vars

\* a viewer whose machine has no agent has just sent an event, while the agent of
\* another machine is registered; nothing was emitted
C35_Witness ==
  \E s \in DOMAIN sockets :
    /\ sockets[s].role = "viewer"
    /\ sockets[s].agentKey # Null
    /\ sockets[s].agentKey \notin DOMAIN agents
    /\ DOMAIN agents # {}
    /\ resp = Handled(s, "event")
    /\ trace = << >>

----------------------------------------------------------------------------
(* registry and sockets, on the behaviours of SpecAgent *)

\* C36: the registry has an entry for key K exactly when a connected agent socket
\* authenticated with K exists, and the socket of the entry is that socket; the
\* handler of an agent socket that is evicted or lost leaves the entry of every other
\* socket, the replacement for the same key included, in the registry.
C36_RegistryAgreement ==
  /\ [](\A K \in Keys :
          /\ K \in DOMAIN agents <=> AgentSockets(K) # {}
          /\ K \in DOMAIN agents => AgentSockets(K) = {agents[K].socket})
  /\ [][\A K \in DOMAIN agents :
          agents[K].socket \in DOMAIN sockets'
            => K \in DOMAIN agents' /\ agents'[K].socket = agents[K].socket
       ]_vars
  /\ [][\A k \in KeyInputs :
          (Handshake(AgentAuth(k)) /\ resp'.body = "connected")
            => k \in DOMAIN agents' /\ agents'[k].socket = resp'.socket
       ]_vars

\* an agent has replaced the registered agent of its key and is the one registered,
\* while the agent of the other user stays registered
C36_Witness ==
  /\ EvictionRan
  /\ Cardinality(DOMAIN agents) = 2
  /\ \E K \in DOMAIN agents :
       /\ resp = Handled(agents[K].socket, "connected")
       /\ AgentSockets(K) = {agents[K].socket}

----------------------------------------------------------------------------
(* streaming commands, on the behaviours of SpecFrames *)

\* the streaming commands among the packets a client has received
StreamingCommands(log) ==
  LET IsCommand(p) == p.ev \in {"start-streaming", "stop-streaming"}
  IN SelectSeq(log, IsCommand)

\* C37: whenever an agent is registered for key K and the viewer group of K is not
\* empty, the last streaming command the agent connection has received is
\* start-streaming (seen at the agents that listen from before their handshake).
C37_StreamingFollowsViewers ==
  \A K \in DOMAIN agents :
    (agents[K].socket \in DOMAIN wire /\ ViewerGroup(K) # {})
      => LET cmds == StreamingCommands(wire[agents[K].socket].log)
         IN cmds # << >> /\ Last(cmds).ev = "start-streaming"

----------------------------------------------------------------------------
(* machine deletion, on the behaviours of SpecIsolation *)

\* C38: every registered agent key, every key whose viewer group has a member, and
\* the machine of every stored invite belong to a machine present in the user store.
C38_DeletionRevokes ==
  /\ \A K \in DOMAIN agents : K \in StoredKeys
  /\ \A s \in DOMAIN sockets :
       (sockets[s].role = "viewer" /\ sockets[s].agentKey # Null)
         => sockets[s].agentKey \in StoredKeys
  /\ \A i \in DOMAIN invites : getMachine(invites[i].userId, invites[i].machineId) # NullRec

\* ---------------------------------------------------------------------------
\* the roles of connected sockets, on the behaviours of SpecHandshake

HandledRoles == {"agent", "viewer", "dashboard"}

\* C39: every socket that passed the handshake has role agent, viewer or
\* dashboard, so that one of the three branches of io.on('connection') took it,
\* and a handshake authenticated by a session that carries another role string
\* never yields a connected socket.
C39_ClosedRoleSet ==
  \A s \in DOMAIN sockets : sockets[s].role \in HandledRoles

\* ---------------------------------------------------------------------------
\* what invited viewers are sent, on the behaviours of SpecInvite

\* the sockets admitted by an invite
InvitedViewers(socks) ==
  {v \in DOMAIN socks : socks[v].role = "viewer" /\ socks[v].isInvited}

\* the machine-status events of the handler that are addressed to v
MachineStatusFor(tr, v) ==
  LET ForV(e) == e.op \in {"emit", "volatile"} /\ e.ev = "machine-status" /\ v \in e.to
  IN SelectSeq(tr, ForV)

\* C40: a viewer admitted by an invite for machine M of user U is never sent a
\* machine-status event about a machine of U other than M, and it is in the
\* viewer group of no key other than the key of M, so that no event of another
\* machine's agent is addressed to it.
C40_InviteViewerScope ==
  [][\A v \in InvitedViewers(sockets') :
       /\ \A i \in 1 .. Len(MachineStatusFor(trace', v)) :
            MachineStatusFor(trace', v)[i].data.machineId = sockets'[v].machineId
       /\ (v \notin DOMAIN sockets /\ sockets'[v].agentKey # Null) =>
            LET m == getMachine(sockets'[v].userId, sockets'[v].machineId)
            IN m # NullRec /\ m.agentKey = sockets'[v].agentKey
    ]_vars

====
